---- MODULE Spec2Model ----
(***************************************************************************)
(* The document-to-findings evaluation pipeline: the orchestrator's run()  *)
(* state machine (src/orchestration/orchestrator.py), the DQC evaluation   *)
(* engine with its two strategies (src/evaluation/dqc_engine.py), the     *)
(* risk matrix, the chunker (src/preprocessing/chunker.py), the            *)
(* retriever's reading order (src/retrieval/retriever.py), the vector      *)
(* index under repeated runs (src/vectorstore/chroma_store.py) and the     *)
(* API router's job, queue and WebSocket handlers (src/api/routers/v1.py). *)
(*                                                                         *)
(* Conventions.  A confidence score c in [0,1] is the integer 100*c.  A    *)
(* text is modelled by what the code reads of it: a retrieved context by   *)
(* its length in characters, the raw text of a document by its length and  *)
(* the length of its strip()ped form, a batch response by the sequence of  *)
(* its characters, the text of a section by the token counts of its       *)
(* sentences and of their words, the collection by the number of entries   *)
(* under each doc_id.                                                      *)
(* Python's None is the string "None".  An exception is its message.       *)
(***************************************************************************)
EXTENDS Integers, Sequences, FiniteSets, TLC

\* ------------------------------------------------------------------ bounds
\* Longest checklist.
MaxItems == 2
\* Longest "evaluations" array in a batch response.
MaxEvals == 2
\* Longest list of findings given to the aggregate alone.
MaxFindings == 5
\* Longest string value of the objects given to _try_parse_json alone.
MaxSummaryChars == 2
\* Most sentences of a text given to _split_text alone.
MaxSentences == 3
\* Most sections of a document given to chunk_document alone.
MaxSections == 3
\* Most chunks in a list given to _group_by_section alone.
MaxChunks == 3
\* Runs of the pipeline on the same file
MaxRuns == 2
\* Searches made by the reader
MaxReads == 2
\* WebSocket connections made to the job
MaxSubscribers == 2

\* ------------------------------------------------------- program constants
\* _risk_level: confidence >= 0.8 and confidence >= 0.5, in hundredths.
HIGH_CONFIDENCE == 80
MEDIUM_CONFIDENCE == 50
\* evaluate_item: confidence of the no-context fallback (0.3), and the
\* character budget of the retry, retrieval.context_text[:5000].
NO_CONTEXT_CONFIDENCE == 30
RETRY_CONTEXT_CHARS == 5000
\* Settings.chunk_size and Settings.chunk_overlap, in tokens.
chunk_size == 1000
chunk_overlap == 150
\* chunk_document: a chunk of fewer tokens is skipped.
MIN_CHUNK_TOKENS == 20
\* orchestrator._CHARS_PER_TOKEN
_CHARS_PER_TOKEN == 4
\* Settings.long_context_max_tokens: the configured ceiling of "auto" mode.
long_context_max_tokens == 2

\* ------------------------------------------------------------- data model
\* models/dqc.py
DQCStatus == {"Pass", "Fail", "Partial"}
RiskLevel == {"Critical", "High", "Medium", "Low"}
Confidence == 0..100

\* orchestrator.PipelineStage
PipelineStage ==
    {"pending", "ingestion", "preprocessing", "embedding", "evaluation",
     "aggregation", "reporting", "completed", "failed"}

None == "None"

\* DQCEvaluationResult, the fields the engine reads or writes.
DQCEvaluationResult(id, status, justification, risk, recommendation, confidence) ==
    [dqc_item_id |-> id, status |-> status, justification |-> justification,
     risk_level |-> risk, recommendation |-> recommendation,
     confidence_score |-> confidence]

\* The risk matrix with both thresholds exclusive: the boundary values fall
\* into the lower band.
_risk_level_exclusive(status, confidence) ==
    IF status = "Fail"
    THEN IF confidence > HIGH_CONFIDENCE THEN "Critical"
         ELSE IF confidence > MEDIUM_CONFIDENCE THEN "High" ELSE "Medium"
    ELSE IF status = "Partial"
    THEN IF confidence > HIGH_CONFIDENCE THEN "High"
         ELSE IF confidence > MEDIUM_CONFIDENCE THEN "Medium" ELSE "Low"
    ELSE "Low"

\* dqc_engine._risk_level
_risk_level(status, confidence) ==
    IF status = "Fail"
    THEN IF confidence >= HIGH_CONFIDENCE THEN "Critical"
         ELSE IF confidence >= MEDIUM_CONFIDENCE THEN "High" ELSE "Medium"
    ELSE IF status = "Partial"
    THEN IF confidence >= HIGH_CONFIDENCE THEN "High"
         ELSE IF confidence >= MEDIUM_CONFIDENCE THEN "Medium" ELSE "Low"
    ELSE IF confidence < MEDIUM_CONFIDENCE THEN "Low" ELSE "Low"

\* A piece of generated or templated text: the template and what is
\* interpolated into it ("" when nothing is).
Text(template, arg) == [template |-> template, arg |-> arg]
NoText == Text("None", "")

\* DQCItem: its id and its requirement text.
ItemIds == 1..MaxItems
\* An id no checklist item carries (an evaluator may invent one).
UNKNOWN_ID == 0
DQCItem(i) == [item_id |-> i, requirement |-> ToString(i)]
\* DQCChecklist.items: the checklists of the model are the prefixes of
\* <<item 1, item 2, ...>>.
Checklists == {[i \in 1..n |-> DQCItem(i)] : n \in 0..MaxItems}

\* ExtractedContent: doc_id, len(raw_text) and len(raw_text.strip()).
ExtractedContent(id, raw_len, stripped_len) ==
    [doc_id |-> id, raw_len |-> raw_len, stripped_len |-> stripped_len]
NoContent == ExtractedContent("", 0, 0)
\* ExtractedContent.is_valid
is_valid(c) == c.stripped_len > 0

\* ComplianceReport: the fields run() and the claims read.
ComplianceReport(id, fs, summary, compliance, recs) ==
    [report_id |-> id, findings |-> fs, executive_summary |-> summary,
     overall_compliance |-> compliance, recommendations |-> recs]
\* ComplianceSummary; the score is kept in tenths (80.0 is 800).
ComplianceSummary(score, total, passed, failed, partial) ==
    [score |-> score, total_items |-> total, passed |-> passed,
     failed |-> failed, partial |-> partial]
NoReport ==
    ComplianceReport(None, <<>>, NoText, ComplianceSummary(0, 0, 0, 0, 0), <<>>)

\* ------------------------------------------------------------------ state
VARIABLES
    \* Settings and inputs of a run
    evaluation_mode,   \* Settings.evaluation_mode
    checklist,         \* the items of the checklist file at dqc_path
    \* PipelineState
    filename, doc_id, stage, progress, errors, stage_times, report_id,
    \* Pipeline.run: position, locals, outcome
    pc, content, use_long_context, chunks, report, exc,
    mode_selections,   \* calls of _should_use_long_context made by run()
    \* what the collaborators have seen
    emitted,           \* the (stage, progress) pairs given to on_progress
    vs_ops,            \* calls made on the VectorStore
    json_reports, pdf_reports, audit_log,
    \* DQCEngine
    findings,          \* evaluate_checklist's list under construction
    last_eval,         \* the latest evaluate_item: its item, context, calls
    batch_outcome,     \* what the batch call and its parse came to
    summary_outcome,   \* how _generate_summary's chain invocation ended
    llm_calls,         \* the chains invoked on the model, in order
    \* risk matrix harness
    rl_status, rl_confidence, rl_result,
    \* aggregate harness: the statuses of a list of findings, the summary
    sc_statuses, sc_result,
    \* _try_parse_json harness: the shape of a response, the object it was
    \* written from, its text, what the parse returned
    pj_form, pj_value, pj_text, pj_result,
    \* _split_text harness: the sentences of a text, the chunks
    st_sentences, st_result,
    \* chunk_document harness: the extracted document, the chunks
    cd_content, cd_result,
    \* _group_by_section harness: the chunks the index returned, the result
    gs_chunks, gs_result,
    \* retrieve on the same chunks: the RetrievalResult
    rt_result,
    \* the Chroma collection under runs on one file and a reader
    ix_collection,     \* doc_id -> number of entries carrying that doc_id
    ix_runs,           \* per run: the extraction's doc_id, its chunk count
    ix_pc,             \* the position of the latest run in _run_rag
    ix_i,              \* add_chunks' loop index i
    ix_reads,          \* what the reader's searches saw
    \* the API router: one job, its run, its subscribers
    api_job,           \* _jobs[job_id]: absent, the initial state, the run's
    api_initial,       \* the PipelineState made by start_analysis
    api_state,         \* the PipelineState of the Pipeline of the run
    api_pc,            \* the position of _run_pipeline
    api_plan,          \* the updates the run will emit if nothing fails
    api_step,          \* how many of them it has emitted
    api_queue,         \* the messages in the job's asyncio.Queue
    api_listed,        \* job_id in _job_queues
    api_subs,          \* per WebSocket connection: where analysis_ws is
    api_got,           \* per connection: the stage of the last message sent
    api_polled         \* the latest answer of analysis_status

pipelineVars ==
    <<evaluation_mode, checklist, filename, doc_id, stage, progress, errors,
      stage_times, report_id, pc, content, use_long_context, chunks, report,
      exc, emitted, vs_ops, json_reports, pdf_reports, audit_log, findings,
      last_eval, batch_outcome, summary_outcome, llm_calls, mode_selections>>
riskVars == <<rl_status, rl_confidence, rl_result>>
scoreVars == <<sc_statuses, sc_result>>
parseVars == <<pj_form, pj_value, pj_text, pj_result>>
splitVars == <<st_sentences, st_result>>
chunkVars == <<cd_content, cd_result>>
groupVars == <<gs_chunks, gs_result, rt_result>>
indexVars == <<ix_collection, ix_runs, ix_pc, ix_i, ix_reads>>
apiVars ==
    <<api_job, api_initial, api_state, api_pc, api_plan, api_step, api_queue,
      api_listed, api_subs, api_got, api_polled>>
serviceVars == <<indexVars, apiVars>>
harnessVars ==
    <<riskVars, scoreVars, parseVars, splitVars, chunkVars, groupVars,
      serviceVars>>
vars == <<pipelineVars, harnessVars>>

\* The doc_ids the extractions can draw (uuid4().hex): a run's is fresh.
DocIds == 1 .. MaxRuns
\* The WebSocket connections made to the job.
Subscribers == 1 .. MaxSubscribers
\* PipelineState(): pending, 0, no errors, no report_id.
NoState == [stage |-> "pending", progress |-> 0, errors |-> <<>>, report_id |-> None]

\* A fresh Pipeline (Pipeline.__init__: self.state = PipelineState()).
PipelineInit ==
    /\ filename = "" /\ doc_id = "" /\ stage = "pending" /\ progress = 0
    /\ errors = <<>> /\ stage_times = {} /\ report_id = None
    /\ pc = "idle" /\ content = NoContent /\ use_long_context = FALSE
    /\ mode_selections = 0
    /\ chunks = 0 /\ report = NoReport /\ exc = None
    /\ emitted = <<>> /\ vs_ops = <<>>
    /\ json_reports = 0 /\ pdf_reports = 0 /\ audit_log = 0
    /\ findings = <<>>
    /\ last_eval = [item_id |-> UNKNOWN_ID, chunks |-> 0, context_len |-> 0,
                    calls |-> <<>>]
    /\ batch_outcome = "not_called"
    /\ summary_outcome = "not_called"
    /\ llm_calls = <<>>

RiskIdle == rl_status = "Pass" /\ rl_confidence = 0 /\ rl_result = None
ScoreIdle == sc_statuses = <<>> /\ sc_result = <<>>
ParseIdle ==
    pj_form = "none" /\ pj_value = <<>> /\ pj_text = <<>> /\ pj_result = <<>>
SplitIdle == st_sentences = <<>> /\ st_result = <<>>
ChunkIdle == cd_content = <<>> /\ cd_result = <<>>
GroupIdle == gs_chunks = <<>> /\ gs_result = <<>> /\ rt_result = <<>>
\* An empty collection: no run, no search yet.
IndexIdle ==
    /\ ix_collection = [d \in DocIds |-> 0]
    /\ ix_runs = <<>> /\ ix_pc = "idle" /\ ix_i = 0 /\ ix_reads = <<>>
\* The router's module state at import (lines 40-42): no job, no queue.
ApiIdle ==
    /\ api_job = "none"
    /\ api_initial = NoState /\ api_state = NoState
    /\ api_pc = "none" /\ api_plan = <<>> /\ api_step = 0
    /\ api_queue = <<>> /\ api_listed = FALSE
    /\ api_subs = [s \in Subscribers |-> "unattached"]
    /\ api_got = [s \in Subscribers |-> "none"]
    /\ api_polled = <<>>
ServiceIdle == IndexIdle /\ ApiIdle
HarnessIdle ==
    /\ RiskIdle /\ ScoreIdle /\ ParseIdle /\ SplitIdle /\ ChunkIdle
    /\ GroupIdle /\ ServiceIdle

\* Pipeline._emit
_emit(s, p) ==
    /\ stage' = s
    /\ progress' = p
    /\ emitted' = Append(emitted, [stage |-> s, progress |-> p])

\* The handler's reset of progress to 0 instead of keeping the checkpoint.
RaiseResetProgress(message) ==
    /\ errors' = Append(errors, message)
    /\ _emit("failed", 0)
    /\ exc' = message
    /\ pc' = "raised"

\* The handler without its errors.append(str(exc)).
RaiseUnrecorded(message) ==
    /\ errors' = errors
    /\ _emit("failed", progress)
    /\ exc' = message
    /\ pc' = "raised"

\* The handler recording the message and re-raising without an _emit.
RaiseUnannounced(message) ==
    /\ errors' = Append(errors, message)
    /\ exc' = message
    /\ pc' = "raised"
    /\ UNCHANGED <<stage, progress, emitted>>

\* Pipeline.run, the except clause: record the message, emit FAILED at
\* the current progress, re-raise.
Raise(message) ==
    /\ errors' = Append(errors, message)
    /\ _emit("failed", progress)
    /\ exc' = message
    /\ pc' = "raised"

\* ------------------------------------------------- DQCEngine.evaluate_item
\* RetrievalResult: the number of chunks and len(context_text).  A result
\* with chunks has a non-empty context (every chunk renders its marker).
RetrievalResult(n, len) == [chunks |-> n, context_len |-> len]
RetrievalResults ==
    {RetrievalResult(0, 0)}
    \cup {RetrievalResult(1, len) :
            len \in {RETRY_CONTEXT_CHARS, RETRY_CONTEXT_CHARS + 1}}

\* text[:n], on lengths.
Slice(len, n) == IF len < n THEN len ELSE n

\* What one invocation of _eval_chain comes to: a validated
\* DQCEvaluationResult, or an exception (transport error, or the
\* PydanticOutputParser rejecting malformed output).
Returned(result) == [raised |-> FALSE, message |-> "", result |-> result]
Raised(message) ==
    [raised |-> TRUE, message |-> message,
     result |-> DQCEvaluationResult(UNKNOWN_ID, "Partial", NoText, "Low", NoText, 0)]
ChainMessages == {"evaluator timed out", "malformed evaluator output"}
\* The evaluator's answers: every status, confidences on both sides of the
\* thresholds, a proposed risk level that is often not the matrix's, with
\* and without a recommendation.
ChainShapes ==
    {[status |-> "Pass", confidence |-> 90, risk |-> "High", rec |-> NoText],
     [status |-> "Pass", confidence |-> 20, risk |-> "Critical",
      rec |-> Text("llm recommendation", "")],
     [status |-> "Fail", confidence |-> 80, risk |-> "Low",
      rec |-> Text("llm recommendation", "")],
     [status |-> "Fail", confidence |-> 49, risk |-> "Critical",
      rec |-> Text("llm recommendation", "")],
     [status |-> "Partial", confidence |-> 50, risk |-> "Critical",
      rec |-> Text("llm recommendation", "")],
     [status |-> "Partial", confidence |-> 79, risk |-> "Low", rec |-> NoText]}
\* The chain's output carries the item id the evaluator wrote, which is
\* the prompt's id or, for a careless evaluator, another one.
ChainOutcomes(item) ==
    {Returned(DQCEvaluationResult(item.item_id, s.status,
                  Text("llm justification", ""), s.risk, s.rec, s.confidence)) :
        s \in ChainShapes}
    \cup {Returned(DQCEvaluationResult(UNKNOWN_ID, "Pass",
                  Text("llm justification", ""), "Low", NoText, 90))}
    \cup {Raised(m) : m \in ChainMessages}

\* result.risk_level = _risk_level(result.status, result.confidence_score)
OverrideRisk(f) ==
    [f EXCEPT !.risk_level = _risk_level(f.status, f.confidence_score)]

\* One invocation of the chain: the length of the context it was given
\* and how it ended.
EvalCall(len, outcome) ==
    [context_len |-> len, raised |-> outcome.raised, message |-> outcome.message]

\* evaluate_item whose retry sends the whole context again.
evaluate_item_full_retry(item, retrieval, first, second) ==
    IF retrieval.chunks = 0
    THEN [result |-> DQCEvaluationResult(item.item_id, "Fail",
                        Text("No relevant content found in the document for this requirement.", ""),
                        "High",
                        Text("Ensure the document addresses", item.requirement),
                        NO_CONTEXT_CONFIDENCE),
          calls |-> <<>>]
    ELSE IF ~first.raised
    THEN [result |-> OverrideRisk(first.result),
          calls |-> <<EvalCall(retrieval.context_len, first)>>]
    ELSE LET calls == <<EvalCall(retrieval.context_len, first),
                        EvalCall(retrieval.context_len, second)>>
         IN  IF ~second.raised
             THEN [result |-> OverrideRisk(second.result), calls |-> calls]
             ELSE [result |-> DQCEvaluationResult(item.item_id, "Partial",
                                 Text("Evaluation failed", second.message),
                                 "Medium",
                                 Text("Manual review required for this item.", ""),
                                 0),
                   calls |-> calls]

\* evaluate_item without the short-circuit on an empty retrieval: the
\* chain is invoked on the empty context.
evaluate_item_no_short_circuit(item, retrieval, first, second) ==
    IF ~first.raised
    THEN [result |-> OverrideRisk(first.result),
          calls |-> <<EvalCall(retrieval.context_len, first)>>]
    ELSE LET calls == <<EvalCall(retrieval.context_len, first),
                        EvalCall(Slice(retrieval.context_len, RETRY_CONTEXT_CHARS),
                                 second)>>
         IN  IF ~second.raised
             THEN [result |-> OverrideRisk(second.result), calls |-> calls]
             ELSE [result |-> DQCEvaluationResult(item.item_id, "Partial",
                                 Text("Evaluation failed", second.message),
                                 "Medium",
                                 Text("Manual review required for this item.", ""),
                                 0),
                   calls |-> calls]

\* DQCEngine.evaluate_item, given what retrieval returned and what the
\* first and the second invocation of the chain would come to: the finding
\* and the invocations made.
evaluate_item(item, retrieval, first, second) ==
    IF retrieval.chunks = 0
    THEN [result |-> DQCEvaluationResult(item.item_id, "Fail",
                        Text("No relevant content found in the document for this requirement.", ""),
                        "High",
                        Text("Ensure the document addresses", item.requirement),
                        NO_CONTEXT_CONFIDENCE),
          calls |-> <<>>]
    ELSE IF ~first.raised
    THEN [result |-> OverrideRisk(first.result),
          calls |-> <<EvalCall(retrieval.context_len, first)>>]
    ELSE LET calls == <<EvalCall(retrieval.context_len, first),
                        EvalCall(Slice(retrieval.context_len, RETRY_CONTEXT_CHARS),
                                 second)>>
         IN  IF ~second.raised
             THEN [result |-> OverrideRisk(second.result), calls |-> calls]
             ELSE [result |-> DQCEvaluationResult(item.item_id, "Partial",
                                 Text("Evaluation failed", second.message),
                                 "Medium",
                                 Text("Manual review required for this item.", ""),
                                 0),
                   calls |-> calls]

\* ------------------------------------------------------------ aggregation
Count(fs, status) == Cardinality({i \in DOMAIN fs : fs[i].status = status})

\* The score cut to its first decimal instead of rounded.
score_truncated(passed, total) ==
    IF total = 0 THEN 0 ELSE (passed * 1000) \div total

\* round(x, 1) of x = passed / total * 100, in tenths: the nearest tenth,
\* a tie going to the even one.
score(passed, total) ==
    IF total = 0 THEN 0
    ELSE LET q == (passed * 1000) \div total
             r == (passed * 1000) % total
         IN  IF 2 * r > total \/ (2 * r = total /\ q % 2 = 1) THEN q + 1 ELSE q

\* The aggregate block shared by both strategies.
Aggregate(fs) ==
    ComplianceSummary(score(Count(fs, "Pass"), Len(fs)), Len(fs),
                      Count(fs, "Pass"), Count(fs, "Fail"), Count(fs, "Partial"))

Recommendation(priority, f) ==
    [priority |-> priority, dqc_item_id |-> f.dqc_item_id,
     action |-> f.recommendation, risk_impact |-> f.risk_level]

\* DQCEngine._build_recommendations: list.sort is stable, so sorting by
\* risk_order is the concatenation of the four risk classes.
_build_recommendations(fs) ==
    LET non_pass == SelectSeq(fs, LAMBDA f : f.status # "Pass" /\ f.recommendation # NoText)
        OfRisk(r) == SelectSeq(non_pass, LAMBDA f : f.risk_level = r)
        sorted == OfRisk("Critical") \o OfRisk("High") \o OfRisk("Medium") \o OfRisk("Low")
    IN  [i \in 1..Len(sorted) |-> Recommendation(i, sorted[i])]

\* _generate_summary whose except clause returns a fixed sentence.
_generate_summary_fixed(c, chain_raised) ==
    IF chain_raised
    THEN Text("Summary generation failed.", "")
    ELSE Text("llm summary", "")

\* DQCEngine._generate_summary: the chain's text, or the template built
\* from the score and the counts when the chain raises.
_generate_summary(c, chain_raised) ==
    IF chain_raised
    THEN Text("Compliance score: {score}%. {passed} passed, {failed} failed, {partial} partial.",
              ToString(<<c.score, c.passed, c.failed, c.partial>>))
    ELSE Text("llm summary", "")

\* ------------------------------------------------------ the batch response
\* One element of the "evaluations" array: a JSON object with the fields
\* _parse_batch_response reads, or a JSON string.
BatchEntry(kind, id, status, risk, rec, confidence) ==
    [kind |-> kind, dqc_item_id |-> id, status |-> status, risk_level |-> risk,
     recommendation |-> rec, confidence_score |-> confidence]
\* Usable entries for every id (the checklist's and an invented one), and
\* entries the DQCEvaluationResult constructor rejects: an invalid status,
\* a confidence above 1.0, an element that is no object.
BatchEntries ==
    {BatchEntry("object", id, "Pass", "High", NoText, 90) : id \in ItemIds \cup {UNKNOWN_ID}}
    \cup {BatchEntry("object", id, "Fail", "Low", Text("llm recommendation", ""), 80) :
            id \in ItemIds \cup {UNKNOWN_ID}}
    \cup {BatchEntry("object", id, "Partial", "Critical", Text("llm recommendation", ""), 49) :
            id \in ItemIds \cup {UNKNOWN_ID}}
    \cup {BatchEntry("object", 1, "Compliant", "Low", NoText, 90),
          BatchEntry("object", 1, "Pass", "Low", NoText, 150),
          BatchEntry("string", UNKNOWN_ID, "", "", NoText, 0)}
BatchEntrySeqs == UNION {[1..n -> BatchEntries] : n \in 0..MaxEvals}

\* The value json.loads makes of a response: whether it is an object,
\* whether it has the "evaluations" key, the JSON type of that key's value
\* and its elements, the JSON type of "executive_summary" ("missing": no
\* key) and, for a string, its characters.
JsonValue(is_object, has_evaluations, evaluations_type, evaluations, summary_type, summary) ==
    [is_object |-> is_object, has_evaluations |-> has_evaluations,
     evaluations_type |-> evaluations_type, evaluations |-> evaluations,
     summary_type |-> summary_type, summary |-> summary]
SummaryTypes == {"string", "missing", "number"}
EmptyObject == JsonValue(TRUE, FALSE, "missing", <<>>, "missing", <<>>)
NoData == JsonValue(FALSE, FALSE, "missing", <<>>, "missing", <<>>)
\* The objects a batch call answers with: every list of entries, with a
\* summary of each type; and an "evaluations" that is no list.
UsableValues ==
    {JsonValue(TRUE, TRUE, "list", es, st, IF st = "string" THEN <<"x">> ELSE <<>>) :
        es \in BatchEntrySeqs, st \in SummaryTypes}
    \cup {JsonValue(TRUE, TRUE, t, <<>>, "string", <<"x">>) :
            t \in {"null", "number", "string", "object"}}
\* An object without the "evaluations" key.
UnusableValues == {JsonValue(TRUE, FALSE, "missing", <<>>, "string", <<"x">>)}

\* ------------------------------------------------------- response texts
\* A text is the sequence of its characters.  The characters the parsing
\* layers tell apart stand for themselves; a letter of prose or of a string
\* is "x"; three backticks, the language tag of a fence, a key with its
\* colon, a literal (null, 5) and a serialized element of the
\* "evaluations" array are one token each (none of them splits a brace
\* pair or a pair of quotes).  The texts hold no backslash escapes.
QUOTE == "\""
\* The three backticks of a Markdown fence (a TLA+ string holds no
\* backtick).
FENCE == "~~~"
Whitespace == {" ", "\n"}
KEY_EVALUATIONS == "\"evaluations\":"
KEY_SUMMARY == "\"executive_summary\":"
KEY_OTHER == "\"k\":"
\* json.dumps of one element of the array.
EntryToken(e) == ToString(e)
IsEntryToken(ch) == \E e \in BatchEntries : EntryToken(e) = ch
EntryOf(ch) == CHOOSE e \in BatchEntries : EntryToken(e) = ch

RECURSIVE Join(_, _)
\* sep.join(parts)
Join(parts, sep) ==
    IF parts = <<>> THEN <<>>
    ELSE IF Len(parts) = 1 THEN parts[1]
    ELSE parts[1] \o sep \o Join(Tail(parts), sep)

\* json.dumps of a value of the model.
json_dumps(v) ==
    LET evals ==
            CASE v.evaluations_type = "list" ->
                    <<"[">> \o Join([i \in DOMAIN v.evaluations |->
                                        <<EntryToken(v.evaluations[i])>>], <<",">>)
                    \o <<"]">>
              [] v.evaluations_type = "null" -> <<"null">>
              [] v.evaluations_type = "number" -> <<"5">>
              [] v.evaluations_type = "string" -> <<QUOTE, "x", QUOTE>>
              [] v.evaluations_type = "object" -> <<"{", KEY_OTHER, "5", "}">>
              [] OTHER -> <<>>
        members ==
            (IF v.has_evaluations THEN <<<<KEY_EVALUATIONS>> \o evals>> ELSE <<>>)
            \o (CASE v.summary_type = "string" ->
                        <<<<KEY_SUMMARY, QUOTE>> \o v.summary \o <<QUOTE>>>>
                  [] v.summary_type = "number" -> <<<<KEY_SUMMARY, "5">>>>
                  [] OTHER -> <<>>)
    IN  IF v.is_object THEN <<"{">> \o Join(members, <<",">>) \o <<"}">>
        ELSE <<"5">>

\* The shapes an evaluator gives its answer.
AsIs(t) == t
Fenced(t) == <<FENCE, "json", "\n">> \o t \o <<"\n", FENCE>>
FencedNoTag(t) == <<FENCE, "\n">> \o t \o <<"\n", FENCE>>
ProseBefore(t) == <<"x", "x", ":", " ">> \o t
ProseAfter(t) == t \o <<"\n", "x", "x">>
ProseAround(t) == <<"x", " ">> \o t \o <<" ", "x">>
\* Prose that itself holds a pair of braces, before the object.
BracedProseBefore(t) == <<"x", "{", "x", "}", " ">> \o t
\* One trailing comma before the closing brace.
TrailingComma(t) == SubSeq(t, 1, Len(t) - 1) \o <<",", "}">>
\* The answer cut short before its closing brace.
Truncated(t) == SubSeq(t, 1, Len(t) - 1)
Garbage == <<"x", "x", " ", "x">>

\* The objects a batch call also returns wrapped: those of at most one
\* entry (the wrapping of an object of any size is read by _try_parse_json
\* alone, under SpecParse).
WrappedValues == {v \in UsableValues : Len(v.evaluations) <= 1}
\* The texts a batch call returns.
BatchResponses ==
    {json_dumps(v) : v \in UsableValues \cup UnusableValues}
    \cup {Fenced(json_dumps(v)) : v \in WrappedValues}
    \cup {ProseAround(json_dumps(v)) : v \in WrappedValues}
    \cup {TrailingComma(json_dumps(v)) : v \in WrappedValues}
    \cup {Truncated(json_dumps(JsonValue(TRUE, TRUE, "list", <<>>, "string", <<"x">>))),
          Garbage, <<"5">>}

RECURSIVE lstrip(_)
lstrip(text) ==
    IF text # <<>> /\ Head(text) \in Whitespace THEN lstrip(Tail(text)) ELSE text
RECURSIVE rstrip(_)
rstrip(text) ==
    IF text # <<>> /\ text[Len(text)] \in Whitespace
    THEN rstrip(SubSeq(text, 1, Len(text) - 1)) ELSE text
\* str.strip
strip(text) == rstrip(lstrip(text))

\* str.find from position i: the first index of ch at or after i, 0 for
\* Python's -1.
find(text, ch, i) ==
    LET hits == {j \in i..Len(text) : text[j] = ch}
    IN  IF hits = {} THEN 0 ELSE CHOOSE j \in hits : \A k \in hits : j <= k

\* DQCEngine._strip_markdown_fences: an opening fence goes with its whole
\* first line, a closing fence from its last occurrence on.
_strip_markdown_fences(text) ==
    LET stripped == strip(text)
        newline == find(stripped, "\n", 1)
        opened ==
            IF stripped # <<>> /\ Head(stripped) = FENCE
            THEN IF newline = 0 THEN <<>>
                 ELSE SubSeq(stripped, newline + 1, Len(stripped))
            ELSE stripped
        closed ==
            IF opened # <<>> /\ opened[Len(opened)] = FENCE
            THEN SubSeq(opened, 1, Len(opened) - 1)
            ELSE opened
    IN  strip(closed)

\* _extract_json_block returning None.
NoBlock == <<>>

RECURSIVE MatchBrace(_, _, _, _)
\* The loop of _extract_json_block from position i: the index of the
\* brace that brings depth back to 0, 0 when the text ends first.  Braces
\* between quotes do not count.
MatchBrace(text, i, depth, in_string) ==
    IF i > Len(text) THEN 0
    ELSE IF text[i] = QUOTE THEN MatchBrace(text, i + 1, depth, ~in_string)
    ELSE IF in_string THEN MatchBrace(text, i + 1, depth, in_string)
    ELSE IF text[i] = "{" THEN MatchBrace(text, i + 1, depth + 1, in_string)
    ELSE IF text[i] = "}"
    THEN IF depth - 1 = 0 THEN i
         ELSE MatchBrace(text, i + 1, depth - 1, in_string)
    ELSE MatchBrace(text, i + 1, depth, in_string)

\* DQCEngine._extract_json_block: from the first "{" of the text to the
\* brace that closes it.
_extract_json_block(text) ==
    LET start == find(text, "{", 1)
        end == IF start = 0 THEN 0 ELSE MatchBrace(text, start, 0, FALSE)
    IN  IF end = 0 THEN NoBlock ELSE SubSeq(text, start, end)

RECURSIVE _repair_json(_)
\* DQCEngine._repair_json: re.sub(r",\s*([}\]])", r"\1", text): every comma
\* that only whitespace separates from a closing brace or bracket goes,
\* with that whitespace, wherever in the text it stands.
_repair_json(text) ==
    IF text = <<>> THEN <<>>
    ELSE LET rest == lstrip(Tail(text))
         IN  IF Head(text) = "," /\ rest # <<>> /\ Head(rest) \in {"}", "]"}
             THEN _repair_json(rest)
             ELSE <<Head(text)>> \o _repair_json(Tail(text))

\* ---- json.loads
\* The outcome of reading one value at a position: failure, or the value
\* and the position after it.
NoParse == [ok |-> FALSE, next |-> 0, data |-> NoData]
Parsed(next, data) == [ok |-> TRUE, next |-> next, data |-> data]

RECURSIVE ParseElements(_, _, _)
\* The elements of an array after its "[" or after a comma.
ParseElements(t, i, acc) ==
    IF i + 1 > Len(t) \/ ~IsEntryToken(t[i]) THEN NoParse
    ELSE IF t[i + 1] = "]"
    THEN Parsed(i + 2, [NoData EXCEPT !.evaluations = Append(acc, EntryOf(t[i]))])
    ELSE IF t[i + 1] = ","
    THEN ParseElements(t, i + 2, Append(acc, EntryOf(t[i])))
    ELSE NoParse

\* A string from its opening quote at i: up to the next quote.
ParseString(t, i) ==
    LET close == find(t, QUOTE, i + 1)
    IN  IF close = 0 THEN NoParse
        ELSE Parsed(close + 1, [NoData EXCEPT !.summary = SubSeq(t, i + 1, close - 1)])

\* One "key": value member at i, added to the object read so far.
ParseMember(t, i, obj) ==
    IF i + 1 > Len(t) THEN NoParse
    ELSE IF t[i] = KEY_EVALUATIONS
    THEN LET has(type, next, es) ==
                 Parsed(next, [obj EXCEPT !.has_evaluations = TRUE,
                                          !.evaluations_type = type,
                                          !.evaluations = es])
         IN  IF t[i + 1] = "null" THEN has("null", i + 2, <<>>)
             ELSE IF t[i + 1] = "5" THEN has("number", i + 2, <<>>)
             ELSE IF t[i + 1] = QUOTE
             THEN LET str == ParseString(t, i + 1)
                  IN  IF str.ok THEN has("string", str.next, <<>>) ELSE NoParse
             ELSE IF t[i + 1] = "{"
             THEN IF i + 4 <= Len(t) /\ SubSeq(t, i + 2, i + 4) = <<KEY_OTHER, "5", "}">>
                  THEN has("object", i + 5, <<>>) ELSE NoParse
             ELSE IF t[i + 1] = "["
             THEN IF i + 2 <= Len(t) /\ t[i + 2] = "]" THEN has("list", i + 3, <<>>)
                  ELSE LET arr == ParseElements(t, i + 2, <<>>)
                       IN  IF arr.ok THEN has("list", arr.next, arr.data.evaluations)
                           ELSE NoParse
             ELSE NoParse
    ELSE IF t[i] = KEY_SUMMARY
    THEN IF t[i + 1] = "5"
         THEN Parsed(i + 2, [obj EXCEPT !.summary_type = "number", !.summary = <<>>])
         ELSE IF t[i + 1] = QUOTE
         THEN LET str == ParseString(t, i + 1)
              IN  IF str.ok
                  THEN Parsed(str.next, [obj EXCEPT !.summary_type = "string",
                                                    !.summary = str.data.summary])
                  ELSE NoParse
         ELSE NoParse
    ELSE NoParse

RECURSIVE ParseMembers(_, _, _)
\* The members of an object from position i to its closing brace, which
\* has to end the text.
ParseMembers(t, i, obj) ==
    LET m == ParseMember(t, i, obj)
    IN  IF ~m.ok \/ m.next > Len(t) THEN NoParse
        ELSE IF t[m.next] = "}"
        THEN IF m.next = Len(t) THEN Parsed(m.next + 1, m.data) ELSE NoParse
        ELSE IF t[m.next] = "," THEN ParseMembers(t, m.next + 1, m.data)
        ELSE NoParse

\* json.loads(text) as _try_parse_json uses it: ok when it returns a dict,
\* with the dict; a JSONDecodeError and a value that is no dict both make
\* _try_parse_json go on to the next attempt.  Whitespace between tokens
\* does not count (the strings of the model hold none).
json_loads(text) ==
    LET t == SelectSeq(text, LAMBDA ch : ch \notin Whitespace)
    IN  IF Len(t) < 2 \/ t[1] # "{" THEN NoParse
        ELSE IF t[2] = "}"
        THEN IF Len(t) = 2 THEN Parsed(3, EmptyObject) ELSE NoParse
        ELSE ParseMembers(t, 2, EmptyObject)

\* _try_parse_json, lines 413-421: the texts to try, in order.
Attempts(raw_response, extracted) ==
    <<strip(raw_response), _strip_markdown_fences(raw_response)>>
    \o (IF extracted # NoBlock
        THEN <<extracted, _repair_json(extracted)>> ELSE <<>>)
\* _try_parse_json, line 425: json.loads of each attempt.
Loaded(attempts) == [i \in DOMAIN attempts |-> json_loads(attempts[i])]
\* _try_parse_json, lines 423-432: the first attempt read as a dict with
\* an "evaluations" key is returned, None when there is none.
FirstUsable(loaded) ==
    LET good == SelectSeq(loaded, LAMBDA l : l.ok /\ l.data.has_evaluations)
    IN  IF good = <<>> THEN [found |-> FALSE, data |-> NoData]
        ELSE [found |-> TRUE, data |-> good[1].data]

\* DQCEngine._try_parse_json: the first of the attempts (direct, fences
\* stripped, extracted block, repaired block) that json.loads reads as a
\* dict with an "evaluations" key; found = FALSE is None.
_try_parse_json(raw_response) ==
    FirstUsable(Loaded(Attempts(raw_response, _extract_json_block(raw_response))))

\* Whether DQCEvaluationResult(...) accepts the entry: raw.get on an
\* object, DQCStatus(...) and RiskLevel(...) of valid names, a confidence
\* within [0, 1].
EntryAccepted(raw) ==
    /\ raw.kind = "object"
    /\ raw.status \in DQCStatus
    /\ raw.risk_level \in RiskLevel
    /\ raw.confidence_score \in Confidence

\* `for raw in raw_evals`: a list yields its elements, a string its
\* characters and a dict its keys (strings both); None and a number are
\* not iterable.
Iterable(data) == data.evaluations_type \in {"list", "string", "object"}
Elements(data) ==
    IF data.evaluations_type = "list" THEN data.evaluations
    ELSE <<BatchEntry("string", UNKNOWN_ID, "", "", NoText, 0)>>

ParseFallback(item) ==
    DQCEvaluationResult(item.item_id, "Partial",
        Text("Evaluation response could not be parsed.", ""), "Medium",
        Text("Manual review required.", ""), 0)
MissingFallback(item) ==
    DQCEvaluationResult(item.item_id, "Partial",
        Text("Item was not included in batch evaluation response.", ""), "Medium",
        Text("Manual review required for this item.", ""), 0)
PARSE_FALLBACK_SUMMARY ==
    Text("Evaluation completed but results could not be fully parsed.", "")

\* data.get("executive_summary", "") as the report will hold it.
SummaryOf(data) ==
    IF data.summary_type = "string" THEN Text("llm summary", "")
    ELSE IF data.summary_type = "missing" THEN Text("", "")
    ELSE Text("not a string", "")

\* _parse_batch_response, lines 442-504, on what _try_parse_json returned.
BatchFindings(parsed, items) ==
    IF ~parsed.found
        THEN [raised |-> FALSE, message |-> "",
              findings |-> [i \in DOMAIN items |-> ParseFallback(items[i])],
              executive_summary |-> PARSE_FALLBACK_SUMMARY,
              summary_is_str |-> TRUE]
        ELSE IF ~Iterable(parsed.data)
        THEN [raised |-> TRUE, message |-> "TypeError: object is not iterable",
              findings |-> <<>>, executive_summary |-> NoText,
              summary_is_str |-> TRUE]
        ELSE LET accepted == SelectSeq(Elements(parsed.data), EntryAccepted)
                 parsed_findings ==
                     [i \in DOMAIN accepted |->
                         DQCEvaluationResult(accepted[i].dqc_item_id,
                             accepted[i].status, Text("llm justification", ""),
                             accepted[i].risk_level, accepted[i].recommendation,
                             accepted[i].confidence_score)]
                 seen_ids == {accepted[i].dqc_item_id : i \in DOMAIN accepted}
                 missing == SelectSeq(items, LAMBDA item : item.item_id \notin seen_ids)
             IN  [raised |-> FALSE, message |-> "",
                  findings |-> parsed_findings
                               \o [i \in DOMAIN missing |-> MissingFallback(missing[i])],
                  executive_summary |-> SummaryOf(parsed.data),
                  summary_is_str |-> parsed.data.summary_type \in {"string", "missing"}]

\* DQCEngine._parse_batch_response: (findings, executive_summary), or the
\* TypeError of iterating a value that is not iterable.
_parse_batch_response(raw_response, items) ==
    BatchFindings(_try_parse_json(raw_response), items)

\* evaluate_checklist_long_context, lines 284-351, on what
\* _parse_batch_response returned: the risk overrides, the aggregates and
\* the report.
BatchReport(parsed) ==
    LET fs == [i \in DOMAIN parsed.findings |-> OverrideRisk(parsed.findings[i])]
    IN  IF parsed.raised
        THEN [raised |-> TRUE, message |-> parsed.message, report |-> NoReport]
        ELSE IF ~parsed.summary_is_str
        THEN [raised |-> TRUE,
              message |-> "ValidationError: executive_summary: Input should be a valid string",
              report |-> NoReport]
        ELSE [raised |-> FALSE, message |-> "",
              report |-> ComplianceReport("report-1", fs, parsed.executive_summary,
                                          Aggregate(fs), _build_recommendations(fs))]

\* DQCEngine.evaluate_checklist_long_context after the batch call has
\* returned raw_response: the report, or the exception that leaves it
\* (the TypeError above, or ComplianceReport rejecting an
\* executive_summary that is not a str).
evaluate_checklist_long_context(raw_response, items) ==
    BatchReport(_parse_batch_response(raw_response, items))

\* -------------------------------------------------------------- retriever
\* A chunk as the index returns it: an LCDocument whose metadata holds the
\* keys of Chunk.to_vectorstore_metadata (section_name, page_number and
\* chunk_index are always stored); page_content identifies the chunk.
LCDocument(page_content, section_name, page_number, chunk_index) ==
    [page_content |-> page_content, section_name |-> section_name,
     page_number |-> page_number, chunk_index |-> chunk_index]

\* A sort key that looks at the page alone.
KeyAtMostPageOnly(a, b) == a.page_number <= b.page_number

\* _group_by_section, lines 100-103: the order of the sort keys
\* (page_number, chunk_index), compared as tuples.
KeyAtMost(a, b) ==
    \/ a.page_number < b.page_number
    \/ a.page_number = b.page_number /\ a.chunk_index <= b.chunk_index

RECURSIVE InsertSorted(_, _)
\* list.sort is stable: a document goes after the documents whose key is
\* at most its own.
InsertSorted(sorted, d) ==
    IF sorted = <<>> THEN <<d>>
    ELSE IF KeyAtMost(sorted[Len(sorted)], d) THEN Append(sorted, d)
    ELSE Append(InsertSorted(SubSeq(sorted, 1, Len(sorted) - 1), d),
                sorted[Len(sorted)])

RECURSIVE SortByKey(_)
SortByKey(docs) ==
    IF docs = <<>> THEN <<>>
    ELSE InsertSorted(SortByKey(SubSeq(docs, 1, Len(docs) - 1)), docs[Len(docs)])

RECURSIVE SectionKeys(_, _, _)
\* _group_by_section, lines 92-95: the keys of section_map in insertion
\* order, which is the order of first occurrence.
SectionKeys(docs, k, keys) ==
    IF k > Len(docs) THEN keys
    ELSE SectionKeys(docs, k + 1,
             IF \E i \in DOMAIN keys : keys[i] = docs[k].section_name THEN keys
             ELSE Append(keys, docs[k].section_name))

RECURSIVE ExtendLoop(_, _, _, _)
\* _group_by_section, lines 97-105: each section's documents, sorted,
\* appended to `ordered`.
ExtendLoop(docs, keys, k, ordered) ==
    IF k > Len(keys) THEN ordered
    ELSE ExtendLoop(docs, keys, k + 1,
             ordered \o SortByKey(SelectSeq(docs,
                            LAMBDA d : d.section_name = keys[k])))

\* RetrievalEngine._group_by_section
_group_by_section(docs) ==
    ExtendLoop(docs, SectionKeys(docs, 1, <<>>), 1, <<>>)

\* RetrievalEngine.retrieve, lines 58-80, on what similarity_search
\* returned (pairs of a document and its score, best first): the chunks go
\* through _group_by_section, the scores stay as they came.
retrieve(results) ==
    [chunks |-> _group_by_section([i \in DOMAIN results |-> results[i][1]]),
     scores |-> [i \in DOMAIN results |-> results[i][2]]]

\* ---------------------------------------------------------------- chunker
\* A sentence of a section as _sentence_split returns it: its position in
\* the section, _count_tokens of it, and _count_tokens of each of its
\* words (read when the sentence is force-split).
Sentence(id, tokens, words) == [id |-> id, tokens |-> tokens, words |-> words]
\* An element of `current`: a sentence, or one word of a force-split
\* sentence (word = 0 for a whole sentence).
Element(sentence, word, tokens) ==
    [sentence |-> sentence, word |-> word, tokens |-> tokens]

RECURSIVE SumTokens(_)
SumTokens(elements) ==
    IF elements = <<>> THEN 0
    ELSE Head(elements).tokens + SumTokens(Tail(elements))

RECURSIVE CarryLoop(_, _, _, _)
\* The loop of _overlap_carry over reversed(current), from index i down.
CarryLoop(current, i, carry, overlap_tokens) ==
    IF i = 0 THEN carry
    ELSE IF SumTokens(carry) + current[i].tokens > overlap_tokens THEN carry
    ELSE CarryLoop(current, i - 1, <<current[i]>> \o carry, overlap_tokens)

\* An overlap that carries the last sentence, whatever its size.
_overlap_carry_last_sentence(current, overlap_tokens) ==
    IF current = <<>> THEN <<>> ELSE <<current[Len(current)]>>

\* chunker._overlap_carry: the longest tail of `current` whose tokens fit
\* in overlap_tokens (carry_tok is SumTokens of it).
_overlap_carry(current, overlap_tokens) ==
    CarryLoop(current, Len(current), <<>>, overlap_tokens)

\* The state of the loops of _split_text.
SplitState(text_chunks, current) ==
    [chunks |-> text_chunks, current |-> current]

RECURSIVE WordLoop(_, _, _, _, _)
\* _split_text, lines 42-51: the words of an oversized sentence, from word
\* k on; `current` of the state is word_buf.
WordLoop(sentence, k, st, max_tokens, overlap_tokens) ==
    IF k > Len(sentence.words) THEN st
    ELSE LET w == Element(sentence.id, k, sentence.words[k])
             flush == SumTokens(st.current) + w.tokens > max_tokens
                      /\ st.current # <<>>
         IN  WordLoop(sentence, k + 1,
                      IF flush
                      THEN SplitState(Append(st.chunks, st.current), <<w>>)
                      ELSE SplitState(st.chunks, Append(st.current, w)),
                      max_tokens, overlap_tokens)

\* _split_text, lines 34-62: one turn of the loop over the sentences.
SplitStep(st, sentence, max_tokens, overlap_tokens) ==
    IF sentence.tokens > max_tokens
    THEN LET flushed ==
                 IF st.current # <<>>
                 THEN SplitState(Append(st.chunks, st.current),
                                 _overlap_carry(st.current, overlap_tokens))
                 ELSE st
             words == WordLoop(sentence, 1, SplitState(flushed.chunks, <<>>),
                               max_tokens, overlap_tokens)
         IN  IF words.current # <<>> THEN words
             ELSE SplitState(words.chunks, flushed.current)
    ELSE LET flush == SumTokens(st.current) + sentence.tokens > max_tokens
                      /\ st.current # <<>>
             flushed ==
                 IF flush
                 THEN SplitState(Append(st.chunks, st.current),
                                 _overlap_carry(st.current, overlap_tokens))
                 ELSE st
         IN  SplitState(flushed.chunks,
                        Append(flushed.current,
                               Element(sentence.id, 0, sentence.tokens)))

RECURSIVE SplitLoop(_, _, _, _, _)
SplitLoop(sentences, k, st, max_tokens, overlap_tokens) ==
    IF k > Len(sentences) THEN st
    ELSE SplitLoop(sentences, k + 1,
                   SplitStep(st, sentences[k], max_tokens, overlap_tokens),
                   max_tokens, overlap_tokens)

\* chunker._split_text on the sentences of a text: the chunks, each the
\* list of the elements joined into it.
_split_text(sentences, max_tokens, overlap_tokens) ==
    LET st == SplitLoop(sentences, 1, SplitState(<<>>, <<>>),
                        max_tokens, overlap_tokens)
    IN  IF st.current # <<>> THEN Append(st.chunks, st.current) ELSE st.chunks

\* models/document.Section, the fields chunk_document reads: the title,
\* page_start, and the sentences of its text (sec.content, or the text of
\* its pages); a text that is empty or blank has no sentence.
Section(title, page_start, sentences) ==
    [title |-> title, page_start |-> page_start, sentences |-> sentences]
\* models/chunk.Chunk, with the elements of its text.
Chunk(section_name, page_number, chunk_index, token_count, elements) ==
    [section_name |-> section_name, page_number |-> page_number,
     chunk_index |-> chunk_index, token_count |-> token_count,
     elements |-> elements]

\* chunk_document, lines 143-162: the sections with text, or the whole
\* document as one section when none was detected.
SectionGroups(extracted) ==
    IF extracted.sections # <<>>
    THEN SelectSeq(extracted.sections, LAMBDA sec : sec.sentences # <<>>)
    ELSE <<Section("Full Document", 1, extracted.raw_text)>>

\* The loop body counting the chunks it skips as well.
AppendChunkCountingSkipped(acc, section, elements) ==
    IF SumTokens(elements) < MIN_CHUNK_TOKENS
    THEN [acc EXCEPT !.chunk_index = @ + 1]
    ELSE [chunks |-> Append(acc.chunks,
                            Chunk(section.title, section.page_start,
                                  acc.chunk_index, SumTokens(elements), elements)),
          chunk_index |-> acc.chunk_index + 1]

\* chunk_document, lines 173-195: one turn of the loop over text_chunks;
\* acc is the list `chunks` and the counter `chunk_index`.
AppendChunk(acc, section, elements) ==
    IF SumTokens(elements) < MIN_CHUNK_TOKENS
    THEN acc
    ELSE [chunks |-> Append(acc.chunks,
                            Chunk(section.title, section.page_start,
                                  acc.chunk_index, SumTokens(elements), elements)),
          chunk_index |-> acc.chunk_index + 1]

RECURSIVE ChunkLoop(_, _, _, _)
ChunkLoop(text_chunks, k, section, acc) ==
    IF k > Len(text_chunks) THEN acc
    ELSE ChunkLoop(text_chunks, k + 1, section,
                   AppendChunk(acc, section, text_chunks[k]))

RECURSIVE SectionLoop(_, _, _)
\* chunk_document, lines 168-172: the loop over section_groups.
SectionLoop(section_groups, k, acc) ==
    IF k > Len(section_groups) THEN acc
    ELSE SectionLoop(section_groups, k + 1,
             IF section_groups[k].sentences = <<>> THEN acc
             ELSE ChunkLoop(_split_text(section_groups[k].sentences,
                                        chunk_size, chunk_overlap),
                            1, section_groups[k], acc))

\* chunker.chunk_document
chunk_document(extracted) ==
    SectionLoop(SectionGroups(extracted), 1,
                [chunks |-> <<>>, chunk_index |-> 0]).chunks

\* ------------------------------------------------------------ Pipeline.run
\* The "auto" comparison with the ceiling itself on the long-context side.
_should_use_long_context_inclusive(mode, raw_len) ==
    IF mode = "rag" THEN FALSE
    ELSE IF mode = "long_context" THEN TRUE
    ELSE raw_len <= long_context_max_tokens * _CHARS_PER_TOKEN

\* Pipeline._should_use_long_context.  len(raw_text) / _CHARS_PER_TOKEN is
\* a float division: the estimate is below the ceiling exactly when
\* len(raw_text) is below ceiling * _CHARS_PER_TOKEN.
_should_use_long_context(mode, raw_len) ==
    IF mode = "rag" THEN FALSE
    ELSE IF mode = "long_context" THEN TRUE
    ELSE raw_len < long_context_max_tokens * _CHARS_PER_TOKEN

\* What extract_document returns: a document whose text is below, at or
\* above the ceiling of "auto" mode, or one without text (an empty file, or
\* whitespace only).
ExtractedContents ==
    {ExtractedContent("doc-1", n, n) :
        n \in {long_context_max_tokens * _CHARS_PER_TOKEN - 1,
               long_context_max_tokens * _CHARS_PER_TOKEN}}
    \cup {ExtractedContent("doc-1", 0, 0), ExtractedContent("doc-1", 3, 0)}

\* chunk_document's result, by the number of chunks.
ChunkCounts == {0, 2}

engineVars == <<findings, last_eval, batch_outcome, summary_outcome, llm_calls>>
sinkVars == <<vs_ops, json_reports, pdf_reports, audit_log>>
inputVars == <<evaluation_mode, checklist>>

\* run(), lines 135-146: state.filename, then _emit(INGESTION, 5).
BeginRun ==
    /\ pc = "idle"
    /\ filename' = "document.pdf"
    /\ _emit("ingestion", 5)
    /\ pc' = "ingestion"
    /\ UNCHANGED <<doc_id, errors, stage_times, report_id, content,
                   use_long_context, mode_selections, chunks, report, exc>>
    /\ UNCHANGED <<inputVars, sinkVars, engineVars, harnessVars>>

\* run(), lines 147-159: extract_document, the validity check, the second
\* INGESTION emit and the choice of the branch.
ExtractDocument ==
    /\ pc = "ingestion"
    /\ \/ /\ Raise("FileNotFoundError: File not found")
          /\ UNCHANGED <<doc_id, stage_times, content, use_long_context, mode_selections>>
       \/ \E c \in ExtractedContents :
            /\ content' = c
            /\ doc_id' = c.doc_id
            /\ stage_times' = stage_times \cup {"ingestion"}
            /\ IF ~is_valid(c)
               THEN /\ Raise("Extraction failed: no text extracted")
                    /\ UNCHANGED <<use_long_context, mode_selections>>
               ELSE /\ _emit("ingestion", 15)
                    /\ use_long_context' =
                         _should_use_long_context(evaluation_mode, c.raw_len)
                    /\ mode_selections' = mode_selections + 1
                    /\ pc' = "branch"
                    /\ UNCHANGED <<errors, exc>>
    /\ UNCHANGED <<filename, report_id, chunks, report>>
    /\ UNCHANGED <<inputVars, sinkVars, engineVars, harnessVars>>

\* _run_long_context preparing the index as _run_rag does: the chunks of
\* the document are deleted from the vector store.
StartLongContextIndexing ==
    /\ pc = "branch" /\ use_long_context
    /\ _emit("evaluation", 20)
    /\ pc' = "long_context"
    /\ vs_ops' = Append(vs_ops, "delete_by_doc_id")
    /\ UNCHANGED <<filename, doc_id, errors, stage_times, report_id, content,
                   use_long_context, mode_selections, chunks, report, exc>>
    /\ UNCHANGED <<inputVars, json_reports, pdf_reports, audit_log,
                   engineVars, harnessVars>>

\* _run_long_context, lines 208-215: _emit(EVALUATION, 20).
StartLongContext ==
    /\ pc = "branch" /\ use_long_context
    /\ _emit("evaluation", 20)
    /\ pc' = "long_context"
    /\ UNCHANGED <<filename, doc_id, errors, stage_times, report_id, content,
                   use_long_context, mode_selections, chunks, report, exc>>
    /\ UNCHANGED <<inputVars, sinkVars, engineVars, harnessVars>>

\* _run_long_context, lines 216-231: load the checklist, one batch call,
\* the parse and the report, then _emit(EVALUATION, 85).
EvaluateLongContext ==
    /\ pc = "long_context"
    /\ \/ /\ Raise("FileNotFoundError: checklist file")
          /\ UNCHANGED <<stage_times, report, batch_outcome, llm_calls>>
       \/ /\ Raise("Batch evaluator call failed")
          /\ batch_outcome' = "raised"
          /\ llm_calls' = Append(llm_calls, "batch_chain")
          /\ UNCHANGED <<stage_times, report>>
       \/ \E raw_response \in BatchResponses :
            \E out \in {evaluate_checklist_long_context(raw_response, checklist)} :
                /\ llm_calls' = Append(llm_calls, "batch_chain")
                /\ batch_outcome' =
                     IF _try_parse_json(raw_response).found THEN "parsed" ELSE "unparsed"
                /\ IF out.raised
                   THEN /\ Raise(out.message)
                        /\ UNCHANGED <<stage_times, report>>
                   ELSE /\ report' = out.report
                        /\ stage_times' = stage_times \cup {"evaluation"}
                        /\ _emit("evaluation", 85)
                        /\ pc' = "reporting"
                        /\ UNCHANGED <<errors, exc>>
    /\ UNCHANGED <<filename, doc_id, report_id, content, use_long_context, mode_selections, chunks>>
    /\ UNCHANGED <<inputVars, sinkVars, findings, last_eval, summary_outcome,
                   harnessVars>>

\* _run_rag announcing EMBEDDING where PREPROCESSING starts.
StartRagAtEmbedding ==
    /\ pc = "branch" /\ ~use_long_context
    /\ _emit("embedding", 18)
    /\ pc' = "preprocessing"
    /\ UNCHANGED <<filename, doc_id, errors, stage_times, report_id, content,
                   use_long_context, mode_selections, chunks, report, exc>>
    /\ UNCHANGED <<inputVars, sinkVars, engineVars, harnessVars>>

\* _run_rag, lines 242-250: _emit(PREPROCESSING, 18).
StartRag ==
    /\ pc = "branch" /\ ~use_long_context
    /\ _emit("preprocessing", 18)
    /\ pc' = "preprocessing"
    /\ UNCHANGED <<filename, doc_id, errors, stage_times, report_id, content,
                   use_long_context, mode_selections, chunks, report, exc>>
    /\ UNCHANGED <<inputVars, sinkVars, engineVars, harnessVars>>

\* _run_rag, lines 251-254: chunk_document, _emit(PREPROCESSING, 25).
ChunkDocument ==
    /\ pc = "preprocessing"
    /\ \E n \in ChunkCounts : chunks' = n
    /\ stage_times' = stage_times \cup {"preprocessing"}
    /\ _emit("preprocessing", 25)
    /\ pc' = "chunked"
    /\ UNCHANGED <<filename, doc_id, errors, report_id, content,
                   use_long_context, mode_selections, report, exc>>
    /\ UNCHANGED <<inputVars, sinkVars, engineVars, harnessVars>>

\* _run_rag going on to the embedding stage whatever chunking returned.
StartEmbeddingUnchecked ==
    /\ pc = "chunked"
    /\ _emit("embedding", 28)
    /\ pc' = "embedding"
    /\ UNCHANGED <<filename, doc_id, errors, stage_times, report_id, content,
                   use_long_context, mode_selections, chunks, report, exc>>
    /\ UNCHANGED <<inputVars, sinkVars, engineVars, harnessVars>>

\* _run_rag, lines 256-260: no chunks is fatal; else _emit(EMBEDDING, 28).
StartEmbedding ==
    /\ pc = "chunked"
    /\ IF chunks = 0
       THEN Raise("Chunking produced no chunks")
       ELSE /\ _emit("embedding", 28)
            /\ pc' = "embedding"
            /\ UNCHANGED <<errors, exc>>
    /\ UNCHANGED <<filename, doc_id, stage_times, report_id, content,
                   use_long_context, mode_selections, chunks, report>>
    /\ UNCHANGED <<inputVars, sinkVars, engineVars, harnessVars>>

\* _run_rag, lines 261-265: delete_by_doc_id, add_chunks (either may fail
\* on the index), _emit(EMBEDDING, 40).
EmbedChunks ==
    /\ pc = "embedding"
    /\ \/ /\ vs_ops' = Append(vs_ops, "delete_by_doc_id")
          /\ Raise("Vector index: delete failed")
          /\ UNCHANGED stage_times
       \/ /\ vs_ops' = vs_ops \o <<"delete_by_doc_id", "add_chunks">>
          /\ Raise("Vector index: add failed")
          /\ UNCHANGED stage_times
       \/ /\ vs_ops' = vs_ops \o <<"delete_by_doc_id", "add_chunks">>
          /\ stage_times' = stage_times \cup {"embedding"}
          /\ _emit("embedding", 40)
          /\ pc' = "embedded"
          /\ UNCHANGED <<errors, exc>>
    /\ UNCHANGED <<filename, doc_id, report_id, content, use_long_context, mode_selections,
                   chunks, report>>
    /\ UNCHANGED <<inputVars, json_reports, pdf_reports, audit_log, engineVars,
                   harnessVars>>

\* _run_rag, line 268: _emit(EVALUATION, 42).
StartEvaluation ==
    /\ pc = "embedded"
    /\ _emit("evaluation", 42)
    /\ pc' = "load_checklist"
    /\ UNCHANGED <<filename, doc_id, errors, stage_times, report_id, content,
                   use_long_context, mode_selections, chunks, report, exc>>
    /\ UNCHANGED <<inputVars, sinkVars, engineVars, harnessVars>>

\* _run_rag, line 270, and evaluate_checklist, lines 169-177: the checklist
\* is loaded and the list of findings starts empty.
LoadChecklist ==
    /\ pc = "load_checklist"
    /\ \/ /\ Raise("FileNotFoundError: checklist file")
          /\ UNCHANGED findings
       \/ /\ findings' = <<>>
          /\ pc' = "evaluate_items"
          /\ UNCHANGED <<stage, progress, emitted, errors, exc>>
    /\ UNCHANGED <<filename, doc_id, stage_times, report_id, content,
                   use_long_context, mode_selections, chunks, report>>
    /\ UNCHANGED <<inputVars, sinkVars, last_eval, batch_outcome,
                   summary_outcome, llm_calls, harnessVars>>

\* evaluate_checklist, lines 178-180: one turn of the loop, evaluate_item
\* on the next item.  A failing similarity search leaves evaluate_item, and
\* the run, with its exception.
EvaluateItem ==
    /\ pc = "evaluate_items"
    /\ Len(findings) < Len(checklist)
    /\ LET item == checklist[Len(findings) + 1]
       IN  \/ /\ Raise("Vector index: search failed")
              /\ vs_ops' = Append(vs_ops, "similarity_search")
              /\ UNCHANGED <<findings, last_eval, llm_calls>>
           \/ \E retrieval \in RetrievalResults :
              \E first \in ChainOutcomes(item), second \in ChainOutcomes(item) :
                LET out == evaluate_item(item, retrieval, first, second)
                IN  /\ findings' = Append(findings, out.result)
                    /\ last_eval' = [item_id |-> item.item_id,
                                     chunks |-> retrieval.chunks,
                                     context_len |-> retrieval.context_len,
                                     calls |-> out.calls]
                    /\ llm_calls' =
                         llm_calls \o [i \in DOMAIN out.calls |-> "_eval_chain"]
                    /\ vs_ops' = Append(vs_ops, "similarity_search")
                    /\ UNCHANGED <<stage, progress, emitted, errors, exc, pc>>
    /\ UNCHANGED <<filename, doc_id, stage_times, report_id, content,
                   use_long_context, mode_selections, chunks, report>>
    /\ UNCHANGED <<inputVars, json_reports, pdf_reports, audit_log,
                   batch_outcome, summary_outcome, harnessVars>>

\* evaluate_checklist, lines 182-238, and _run_rag, lines 282-284: the
\* aggregate, the recommendations, the summary (its chain may raise), the
\* report, then _emit(EVALUATION, 85).
FinishChecklist ==
    /\ pc = "evaluate_items"
    /\ Len(findings) = Len(checklist)
    /\ \E chain_raised \in BOOLEAN :
         /\ report' = ComplianceReport("report-1", findings,
                          _generate_summary(Aggregate(findings), chain_raised),
                          Aggregate(findings), _build_recommendations(findings))
         /\ summary_outcome' = IF chain_raised THEN "raised" ELSE "returned"
    /\ llm_calls' = Append(llm_calls, "_summary_chain")
    /\ stage_times' = stage_times \cup {"evaluation"}
    /\ _emit("evaluation", 85)
    /\ pc' = "reporting"
    /\ UNCHANGED <<filename, doc_id, errors, report_id, content,
                   use_long_context, mode_selections, chunks, exc>>
    /\ UNCHANGED <<inputVars, sinkVars, findings, last_eval, batch_outcome,
                   harnessVars>>

\* run() announcing the enum's unused AGGREGATION member before REPORTING.
StartReportingAggregation ==
    /\ pc = "reporting"
    /\ _emit("aggregation", 90)
    /\ pc' = "save_json"
    /\ UNCHANGED <<filename, doc_id, errors, stage_times, report_id, content,
                   use_long_context, mode_selections, chunks, report, exc>>
    /\ UNCHANGED <<inputVars, sinkVars, engineVars, harnessVars>>

\* run(), line 167: _emit(REPORTING, 90).
StartReporting ==
    /\ pc = "reporting"
    /\ _emit("reporting", 90)
    /\ pc' = "save_json"
    /\ UNCHANGED <<filename, doc_id, errors, stage_times, report_id, content,
                   use_long_context, mode_selections, chunks, report, exc>>
    /\ UNCHANGED <<inputVars, sinkVars, engineVars, harnessVars>>

\* run(), lines 170-173: save_json_report (writing may fail).
SaveJsonReport ==
    /\ pc = "save_json"
    /\ \/ /\ Raise("OSError: JSON report")
          /\ UNCHANGED json_reports
       \/ /\ json_reports' = json_reports + 1
          /\ pc' = "save_pdf"
          /\ UNCHANGED <<stage, progress, emitted, errors, exc>>
    /\ UNCHANGED <<filename, doc_id, stage_times, report_id, content,
                   use_long_context, mode_selections, chunks, report>>
    /\ UNCHANGED <<inputVars, vs_ops, pdf_reports, audit_log, engineVars, harnessVars>>

\* run(), lines 174-177: generate_pdf_report (may fail), then
\* state.stage_times["reporting"] and state.report_id.
GeneratePdfReport ==
    /\ pc = "save_pdf"
    /\ \/ /\ Raise("OSError: PDF report")
          /\ UNCHANGED <<pdf_reports, stage_times, report_id>>
       \/ /\ pdf_reports' = pdf_reports + 1
          /\ stage_times' = stage_times \cup {"reporting"}
          /\ report_id' = report.report_id
          /\ pc' = "audit"
          /\ UNCHANGED <<stage, progress, emitted, errors, exc>>
    /\ UNCHANGED <<filename, doc_id, content, use_long_context, mode_selections, chunks, report>>
    /\ UNCHANGED <<inputVars, vs_ops, json_reports, audit_log, engineVars, harnessVars>>

\* The run announcing completion without the audit insert.
LogEvaluationUnlogged ==
    /\ pc = "audit"
    /\ _emit("completed", 100)
    /\ pc' = "returned"
    /\ UNCHANGED <<errors, exc, audit_log>>
    /\ UNCHANGED <<filename, doc_id, stage_times, report_id, content,
                   use_long_context, mode_selections, chunks, report>>
    /\ UNCHANGED <<inputVars, vs_ops, json_reports, pdf_reports, engineVars, harnessVars>>

\* run(), lines 180-191: the audit record (the insert may fail), then
\* _emit(COMPLETED, 100) and the report is returned.
LogEvaluation ==
    /\ pc = "audit"
    /\ \/ /\ Raise("sqlite3.OperationalError: audit log")
          /\ UNCHANGED audit_log
       \/ /\ audit_log' = audit_log + 1
          /\ _emit("completed", 100)
          /\ pc' = "returned"
          /\ UNCHANGED <<errors, exc>>
    /\ UNCHANGED <<filename, doc_id, stage_times, report_id, content,
                   use_long_context, mode_selections, chunks, report>>
    /\ UNCHANGED <<inputVars, vs_ops, json_reports, pdf_reports, engineVars, harnessVars>>

Init ==
    /\ evaluation_mode \in {"rag", "long_context", "auto"}
    /\ checklist \in Checklists
    /\ PipelineInit
    /\ HarnessIdle

Next ==
    \/ BeginRun
    \/ ExtractDocument
    \/ StartLongContext
    \/ EvaluateLongContext
    \/ StartRag
    \/ ChunkDocument
    \/ StartEmbedding
    \/ EmbedChunks
    \/ StartEvaluation
    \/ LoadChecklist
    \/ EvaluateItem
    \/ FinishChecklist
    \/ StartReporting
    \/ SaveJsonReport
    \/ GeneratePdfReport
    \/ LogEvaluation

Spec == Init /\ [][Next]_vars

\* ------------------------------------------------- the risk matrix, alone
\* Every (status, confidence) pair is an input.
RiskInit ==
    /\ rl_status \in DQCStatus
    /\ rl_confidence \in Confidence
    /\ rl_result = None
    /\ evaluation_mode = "rag"
    /\ checklist = <<>>
    /\ PipelineInit
    /\ ServiceIdle
    /\ ScoreIdle /\ ParseIdle /\ SplitIdle /\ ChunkIdle /\ GroupIdle

ApplyRiskLevel ==
    /\ rl_result = None
    /\ rl_result' = _risk_level(rl_status, rl_confidence)
    /\ UNCHANGED <<rl_status, rl_confidence, pipelineVars, serviceVars, scoreVars, parseVars,
                   splitVars, chunkVars, groupVars>>

SpecRisk == RiskInit /\ [][ApplyRiskLevel]_vars

\* --------------------------------------------------- the aggregate, alone
\* The findings of a report, by their statuses: every list of up to
\* MaxFindings statuses is an input.
StatusLists == UNION {[1..n -> DQCStatus] : n \in 0..MaxFindings}
FindingsOf(statuses) ==
    [i \in DOMAIN statuses |->
        DQCEvaluationResult(i, statuses[i], Text("llm justification", ""),
                            _risk_level(statuses[i], HIGH_CONFIDENCE),
                            Text("llm recommendation", ""), HIGH_CONFIDENCE)]

ScoreInit ==
    /\ sc_statuses \in StatusLists
    /\ sc_result = <<>>
    /\ evaluation_mode = "rag"
    /\ checklist = <<>>
    /\ PipelineInit
    /\ ServiceIdle
    /\ RiskIdle /\ ParseIdle /\ SplitIdle /\ ChunkIdle /\ GroupIdle

ApplyAggregate ==
    /\ sc_result = <<>>
    /\ sc_result' = <<Aggregate(FindingsOf(sc_statuses))>>
    /\ UNCHANGED <<sc_statuses, pipelineVars, serviceVars, riskVars, parseVars, splitVars,
                   chunkVars, groupVars>>

SpecScore == ScoreInit /\ [][ApplyAggregate]_vars

\* ------------------------------------------------- _try_parse_json, alone
\* The characters of a string value: letters, and the characters the
\* repair and the block extraction look for.
StringChars == {"x", ",", "}", "{", "]"}
SummaryStrings == UNION {[1..n -> StringChars] : n \in 0..MaxSummaryChars}
\* The objects with an "evaluations" key: an empty list, a list of one
\* entry, null; with a string summary or none.
ParseObjects ==
    {JsonValue(TRUE, TRUE, "list", es, "string", str) :
        es \in {<<>>, <<BatchEntry("object", 1, "Pass", "High", NoText, 90)>>},
        str \in SummaryStrings}
    \cup {JsonValue(TRUE, TRUE, "null", <<>>, "string", str) : str \in SummaryStrings}
    \cup {JsonValue(TRUE, TRUE, "list", <<>>, "missing", <<>>)}
\* The shapes of a response around its object.
ResponseForms ==
    {"as_is", "fenced", "fenced_no_tag", "prose_before", "prose_after",
     "braced_prose_before", "trailing_comma"}
Shaped(form, text) ==
    CASE form = "as_is" -> AsIs(text)
      [] form = "fenced" -> Fenced(text)
      [] form = "fenced_no_tag" -> FencedNoTag(text)
      [] form = "prose_before" -> ProseBefore(text)
      [] form = "prose_after" -> ProseAfter(text)
      [] form = "braced_prose_before" -> BracedProseBefore(text)
      [] form = "trailing_comma" -> TrailingComma(text)
\* Texts that hold no JSON object.
NoObjectTexts ==
    {Garbage, <<>>, <<"5">>, <<"[", "]">>, <<"x", "{", "x">>, <<QUOTE, "x", QUOTE>>}

ParseInit ==
    /\ \/ /\ pj_form \in ResponseForms
          /\ \E v \in ParseObjects :
               pj_value = <<v>> /\ pj_text = Shaped(pj_form, json_dumps(v))
       \/ /\ pj_form = "no_object"
          /\ pj_value = <<>>
          /\ pj_text \in NoObjectTexts
    /\ pj_result = <<>>
    /\ evaluation_mode = "rag"
    /\ checklist = <<>>
    /\ PipelineInit
    /\ ServiceIdle
    /\ RiskIdle /\ ScoreIdle /\ SplitIdle /\ ChunkIdle /\ GroupIdle

ApplyTryParseJson ==
    /\ pj_form # "none"
    /\ pj_result = <<>>
    /\ pj_result' = <<_try_parse_json(pj_text)>>
    /\ UNCHANGED <<pj_form, pj_value, pj_text, pipelineVars, serviceVars, riskVars, scoreVars,
                   splitVars, chunkVars, groupVars>>

SpecParse == ParseInit /\ [][ApplyTryParseJson]_vars

\* ------------------------------------------------------- the chunker, alone
RECURSIVE Sum(_)
Sum(numbers) ==
    IF numbers = <<>> THEN 0 ELSE Head(numbers) + Sum(Tail(numbers))
\* The sentences of a text, from the token counts of their words.
Sentences(word_lists) ==
    [i \in DOMAIN word_lists |-> Sentence(i, Sum(word_lists[i]), word_lists[i])]
\* Sentences around the budgets: below the minimum chunk, below, at and
\* above the overlap, near the chunk size, and above it (of words that fit,
\* or with a word that does not).
SentenceKinds ==
    {<<10>>, <<100>>, <<150>>, <<500>>, <<900>>, <<600, 600>>, <<100, 1100, 100>>}
Texts == UNION {[1..n -> SentenceKinds] : n \in 0..MaxSentences}

SplitInit ==
    /\ \E word_lists \in Texts : st_sentences = Sentences(word_lists)
    /\ st_result = <<>>
    /\ evaluation_mode = "rag"
    /\ checklist = <<>>
    /\ PipelineInit
    /\ ServiceIdle
    /\ RiskIdle /\ ScoreIdle /\ ParseIdle /\ ChunkIdle /\ GroupIdle

ApplySplitText ==
    /\ st_result = <<>>
    /\ st_result' = <<_split_text(st_sentences, chunk_size, chunk_overlap)>>
    /\ UNCHANGED <<st_sentences, pipelineVars, serviceVars, riskVars, scoreVars, parseVars,
                   chunkVars, groupVars>>

SpecSplit == SplitInit /\ [][ApplySplitText]_vars

\* The texts of the sections of a document, each the words of its
\* sentences: a blank text; a text too small for a chunk; one chunk; a
\* small chunk followed by the two of an oversized sentence; two chunks
\* with an overlap; an oversized sentence whose middle word is a chunk of
\* its own, too small to keep.
SectionTexts ==
    {<<>>, <<<<10>>>>, <<<<900>>>>, <<<<10>>, <<600, 600>>>>,
     <<<<900>>, <<100>>, <<10>>>>, <<<<1100, 10, 1100>>>>}
\* ExtractedContent as chunk_document reads it: the detected sections and
\* the raw text.
Documents ==
    {[sections |-> [i \in 1..n |-> Section(ToString(i), i, Sentences(texts[i]))],
      raw_text |-> Sentences(raw)] :
        n \in {0}, texts \in {<<>>}, raw \in SectionTexts}
    \cup UNION {{[sections |-> [i \in 1..n |->
                                  Section(ToString(i), i, Sentences(texts[i]))],
                   raw_text |-> <<>>] :
                    texts \in [1..n -> SectionTexts]} : n \in 1..MaxSections}

ChunkInit ==
    /\ \E content_ \in Documents : cd_content = <<content_>>
    /\ cd_result = <<>>
    /\ evaluation_mode = "rag"
    /\ checklist = <<>>
    /\ PipelineInit
    /\ ServiceIdle
    /\ RiskIdle /\ ScoreIdle /\ ParseIdle /\ SplitIdle /\ GroupIdle

ApplyChunkDocument ==
    /\ cd_content # <<>>
    /\ cd_result = <<>>
    /\ cd_result' = <<chunk_document(cd_content[1])>>
    /\ UNCHANGED <<cd_content, pipelineVars, serviceVars, riskVars, scoreVars, parseVars,
                   splitVars, groupVars>>

SpecChunk == ChunkInit /\ [][ApplyChunkDocument]_vars

\* ----------------------------------------------- _group_by_section, alone
SectionNames == {"A", "B"}
PageNumbers == {1, 2}
ChunkIndexes == {0, 1}
\* The lists the index can return: up to MaxChunks chunks in similarity
\* order, each with its own content; two chunks may share a section, a page
\* or (across documents) a chunk_index.
ChunkLists ==
    UNION {{[i \in 1..n |-> LCDocument(i, m[i][1], m[i][2], m[i][3])] :
               m \in [1..n -> SectionNames \X PageNumbers \X ChunkIndexes]} :
           n \in 0..MaxChunks}

\* The relevance score of the i-th result of similarity_search, in
\* hundredths: the results come best first.
ScoreOfRank(i) == 100 - i
\* similarity_search returning the chunks with their scores.
SearchResults(docs) == [i \in DOMAIN docs |-> <<docs[i], ScoreOfRank(i)>>]

GroupInit ==
    /\ gs_chunks \in ChunkLists
    /\ gs_result = <<>>
    /\ rt_result = <<>>
    /\ evaluation_mode = "rag"
    /\ checklist = <<>>
    /\ PipelineInit
    /\ ServiceIdle
    /\ RiskIdle /\ ScoreIdle /\ ParseIdle /\ SplitIdle /\ ChunkIdle

ApplyGroupBySection ==
    /\ gs_result = <<>>
    /\ gs_result' = <<_group_by_section(gs_chunks)>>
    /\ UNCHANGED <<gs_chunks, rt_result, pipelineVars, serviceVars, riskVars, scoreVars,
                   parseVars, splitVars, chunkVars>>

ApplyRetrieve ==
    /\ rt_result = <<>>
    /\ rt_result' = <<retrieve(SearchResults(gs_chunks))>>
    /\ UNCHANGED <<gs_chunks, gs_result, pipelineVars, serviceVars, riskVars, scoreVars,
                   parseVars, splitVars, chunkVars>>

SpecGroup == GroupInit /\ [][ApplyGroupBySection \/ ApplyRetrieve]_vars

\* ------------------------------------------- the vector index across runs
\* VectorStore.add_chunks' default batch_size.
batch_size == 100
\* Settings.retrieval_top_k
retrieval_top_k == 10

\* The numbers of chunks a run's chunk_document returns: fewer than a
\* batch, exactly one, more than two.
RunChunkCounts == {1, batch_size, 2 * batch_size + 1}

Min(a, b) == IF a <= b THEN a ELSE b

\* collection.delete(where={"doc_id": doc_id})
delete_by_doc_id(collection, d) == [collection EXCEPT ![d] = 0]
\* Chroma.add_documents(batch_docs, ids=batch_ids): the ids are fresh
\* chunk_ids, so every document becomes a new entry.
add_documents(collection, d, n) == [collection EXCEPT ![d] = @ + n]
\* A slice holding every remaining document.
BatchLenAll(i, n) == n - i
\* len(documents[i : i + batch_size])
BatchLen(i, n) == Min(batch_size, n - i)

\* The run in progress, or the last one.
LatestRun == ix_runs[Len(ix_runs)]

\* run() on the file, up to _run_rag's chunk list: extract_document
\* makes an ExtractedContent whose doc_id is a new uuid4, chunk_document
\* returns a non-empty list.
IndexExtract ==
    /\ ix_pc \in {"idle", "done", "failed"}
    /\ Len(ix_runs) < MaxRuns
    /\ \E d \in DocIds \ {ix_runs[r].doc_id : r \in DOMAIN ix_runs} :
         \E n \in RunChunkCounts :
            ix_runs' = Append(ix_runs, [doc_id |-> d, chunks |-> n])
    /\ ix_pc' = "delete"
    /\ ix_i' = 0
    /\ UNCHANGED <<ix_collection, ix_reads>>
    /\ UNCHANGED <<pipelineVars, riskVars, scoreVars, parseVars, splitVars,
                   chunkVars, groupVars, apiVars>>

\* _run_rag, line 262: delete_by_doc_id(content.doc_id).
IndexDelete ==
    /\ ix_pc = "delete"
    /\ ix_collection' = delete_by_doc_id(ix_collection, LatestRun.doc_id)
    /\ ix_pc' = "add"
    /\ UNCHANGED <<ix_runs, ix_i, ix_reads>>
    /\ UNCHANGED <<pipelineVars, riskVars, scoreVars, parseVars, splitVars,
                   chunkVars, groupVars, apiVars>>

\* _run_rag, line 263: one round of add_chunks' loop. The batch is
\* stored, at the first attempt or at the retry, or the retry fails too
\* and add_chunks raises, which ends the run.
IndexAddBatch(outcome) ==
    /\ ix_pc = "add"
    /\ IF outcome = "stored"
       THEN /\ ix_collection' =
                 add_documents(ix_collection, LatestRun.doc_id,
                               BatchLen(ix_i, LatestRun.chunks))
            /\ ix_i' = ix_i + batch_size
            /\ ix_pc' = IF ix_i + batch_size < LatestRun.chunks THEN "add" ELSE "done"
       ELSE /\ ix_pc' = "failed"
            /\ UNCHANGED <<ix_collection, ix_i>>
    /\ UNCHANGED <<ix_runs, ix_reads>>
    /\ UNCHANGED <<pipelineVars, riskVars, scoreVars, parseVars, splitVars,
                   chunkVars, groupVars, apiVars>>

\* A reader's similarity_search(query, doc_id=d): the entries the
\* filter matches at that moment, of which the k best are returned.
IndexSearch ==
    /\ Len(ix_reads) < MaxReads
    /\ \E r \in DOMAIN ix_runs :
         ix_reads' = Append(ix_reads,
             [run |-> r, during |-> IF r = Len(ix_runs) THEN ix_pc ELSE "done",
              visible |-> ix_collection[ix_runs[r].doc_id],
              results |-> Min(retrieval_top_k, ix_collection[ix_runs[r].doc_id])])
    /\ UNCHANGED <<ix_collection, ix_runs, ix_pc, ix_i>>
    /\ UNCHANGED <<pipelineVars, riskVars, scoreVars, parseVars, splitVars,
                   chunkVars, groupVars, apiVars>>

IndexInit ==
    /\ IndexIdle /\ ApiIdle
    /\ evaluation_mode = "rag"
    /\ checklist = <<>>
    /\ PipelineInit
    /\ RiskIdle /\ ScoreIdle /\ ParseIdle /\ SplitIdle /\ ChunkIdle /\ GroupIdle

IndexNext ==
    \/ IndexExtract
    \/ IndexDelete
    \/ \E outcome \in {"stored", "raised"} : IndexAddBatch(outcome)
    \/ IndexSearch

SpecIndex == IndexInit /\ [][IndexNext]_vars

\* ------------------------------------------------- the API router, one job
\* asyncio.Queue(maxsize=100)
QUEUE_MAXSIZE == 100
\* str(exc) of the exception that ends a run
FAILURE == "failure"
\* report.report_id
REPORT_ID == "report"

\* What a WSProgressMessage carries of the state.
Update(s, p) == [stage |-> s, progress |-> p]
\* The updates of a run through _run_rag that nothing stops.
RagUpdates ==
    <<Update("ingestion", 5), Update("ingestion", 15),
      Update("preprocessing", 18), Update("preprocessing", 25),
      Update("embedding", 28), Update("embedding", 40),
      Update("evaluation", 42), Update("evaluation", 85),
      Update("reporting", 90), Update("completed", 100)>>
\* The updates of a run through _run_long_context that nothing stops.
LongContextUpdates ==
    <<Update("ingestion", 5), Update("ingestion", 15),
      Update("evaluation", 20), Update("evaluation", 85),
      Update("reporting", 90), Update("completed", 100)>>

\* A queue that makes room by dropping its oldest message.
put_dropping_oldest(queue, msg) ==
    IF Len(queue) >= QUEUE_MAXSIZE THEN Append(Tail(queue), msg) ELSE Append(queue, msg)
\* on_progress, lines 120-123: queue.put_nowait(msg) with QueueFull
\* caught and passed over.
put_nowait(queue, msg) ==
    IF Len(queue) >= QUEUE_MAXSIZE THEN queue ELSE Append(queue, msg)

\* on_progress, lines 108-123, called by _emit with the run's state.
on_progress(msg) ==
    /\ api_job' = "run"
    /\ api_queue' = IF api_listed THEN put_nowait(api_queue, msg) ELSE api_queue

\* start_analysis, lines 154-164.
StartAnalysis ==
    /\ api_job = "none"
    /\ api_job' = "initial"
    /\ api_initial' = NoState
    /\ api_queue' = <<>>
    /\ api_listed' = TRUE
    /\ api_pc' = "queued"
    /\ UNCHANGED <<api_state, api_plan, api_step, api_subs, api_got, api_polled>>
    /\ UNCHANGED <<pipelineVars, riskVars, scoreVars, parseVars, splitVars,
                   chunkVars, groupVars, indexVars>>

\* _run_pipeline, line 125: the Pipeline is built, or its constructor
\* raises and the wrapper's handler (139-141) records the message on the
\* state start_analysis stored.
RunPipeline ==
    /\ api_pc = "queued"
    /\ \/ /\ api_pc' = "running"
          /\ api_plan' \in {RagUpdates, LongContextUpdates}
          /\ api_state' = NoState
          /\ UNCHANGED api_initial
       \/ /\ api_pc' = "done"
          /\ api_initial' = [api_initial EXCEPT !.errors = Append(@, FAILURE)]
          /\ UNCHANGED <<api_plan, api_state>>
    /\ UNCHANGED <<api_job, api_step, api_queue, api_listed, api_subs, api_got,
                   api_polled>>
    /\ UNCHANGED <<pipelineVars, riskVars, scoreVars, parseVars, splitVars,
                   chunkVars, groupVars, indexVars>>

\* Pipeline.run up to and including its next _emit; report_id is set
\* (line 177) before the last one, after which run returns.
RunEmit ==
    /\ api_pc = "running"
    /\ api_step < Len(api_plan)
    /\ \E msg \in {api_plan[api_step + 1]} :
          /\ api_state' = [api_state EXCEPT
                              !.stage = msg.stage, !.progress = msg.progress,
                              !.report_id = IF msg.stage = "completed" THEN REPORT_ID ELSE @]
          /\ on_progress(msg)
          /\ api_pc' = IF msg.stage = "completed" THEN "returned" ELSE "running"
    /\ api_step' = api_step + 1
    /\ UNCHANGED <<api_initial, api_plan, api_listed, api_subs, api_got, api_polled>>
    /\ UNCHANGED <<pipelineVars, riskVars, scoreVars, parseVars, splitVars,
                   chunkVars, groupVars, indexVars>>

\* Pipeline.run, lines 193-197: a stage raises after the first _emit;
\* the handler appends str(exc), emits FAILED, re-raises.
RunRaise ==
    /\ api_pc = "running"
    /\ api_step >= 1 /\ api_step < Len(api_plan)
    /\ api_state' = [api_state EXCEPT !.errors = Append(@, FAILURE), !.stage = "failed"]
    /\ on_progress(Update("failed", api_state.progress))
    /\ api_pc' = "raised"
    /\ UNCHANGED <<api_initial, api_plan, api_step, api_listed, api_subs, api_got,
                   api_polled>>
    /\ UNCHANGED <<pipelineVars, riskVars, scoreVars, parseVars, splitVars,
                   chunkVars, groupVars, indexVars>>

\* _run_pipeline, lines 128-134: the report is stored and
\* _jobs[job_id].report_id set.
WrapperSuccess ==
    /\ api_pc = "returned"
    /\ api_state' = [api_state EXCEPT !.report_id = REPORT_ID]
    /\ api_pc' = "done"
    /\ UNCHANGED <<api_job, api_initial, api_plan, api_step, api_queue, api_listed,
                   api_subs, api_got, api_polled>>
    /\ UNCHANGED <<pipelineVars, riskVars, scoreVars, parseVars, splitVars,
                   chunkVars, groupVars, indexVars>>

\* _run_pipeline, lines 136-141: run() raised; _jobs[job_id] is the
\* run's own state, on which str(exc) is appended.
WrapperExcept ==
    /\ api_pc = "raised"
    /\ api_state' = [api_state EXCEPT !.errors = Append(@, FAILURE)]
    /\ api_pc' = "done"
    /\ UNCHANGED <<api_job, api_initial, api_plan, api_step, api_queue, api_listed,
                   api_subs, api_got, api_polled>>
    /\ UNCHANGED <<pipelineVars, riskVars, scoreVars, parseVars, splitVars,
                   chunkVars, groupVars, indexVars>>

\* The object _jobs[job_id] refers to.
JobState == IF api_job = "run" THEN api_state ELSE api_initial

\* analysis_status, lines 170-184.
PollStatus ==
    /\ api_polled' =
         IF api_job = "none"
         THEN <<[found |-> FALSE, stage |-> "", progress |-> 0, errors |-> <<>>]>>
         ELSE <<[found |-> TRUE, stage |-> JobState.stage,
                 progress |-> JobState.progress, errors |-> JobState.errors]>>
    /\ UNCHANGED <<api_job, api_initial, api_state, api_pc, api_plan, api_step,
                   api_queue, api_listed, api_subs, api_got>>
    /\ UNCHANGED <<pipelineVars, riskVars, scoreVars, parseVars, splitVars,
                   chunkVars, groupVars, indexVars>>

\* analysis_ws, lines 193-199: accept, look the queue up; without one
\* the error message is sent and the connection closed.
WsAttach(s) ==
    /\ api_subs[s] = "unattached"
    /\ api_subs' = [api_subs EXCEPT ![s] =
                       IF api_listed THEN "listening"
                       ELSE IF api_job = "none" THEN "no_job" ELSE "not_found"]
    /\ UNCHANGED <<api_job, api_initial, api_state, api_pc, api_plan, api_step,
                   api_queue, api_listed, api_got, api_polled>>
    /\ UNCHANGED <<pipelineVars, riskVars, scoreVars, parseVars, splitVars,
                   chunkVars, groupVars, indexVars>>

\* analysis_ws, lines 201-210 and 216-218: a message is taken and sent;
\* after completed or failed the connection is closed and the finally
\* clause pops the job's queue.
WsReceive(s) ==
    /\ api_subs[s] = "listening"
    /\ api_queue # <<>>
    /\ api_queue' = Tail(api_queue)
    /\ api_got' = [api_got EXCEPT ![s] = Head(api_queue).stage]
    /\ IF Head(api_queue).stage \in {"completed", "failed"}
       THEN /\ api_subs' = [api_subs EXCEPT ![s] = "closed"]
            /\ api_listed' = FALSE
       ELSE UNCHANGED <<api_subs, api_listed>>
    /\ UNCHANGED <<api_job, api_initial, api_state, api_pc, api_plan, api_step,
                   api_polled>>
    /\ UNCHANGED <<pipelineVars, riskVars, scoreVars, parseVars, splitVars,
                   chunkVars, groupVars, indexVars>>

\* analysis_ws, lines 214-218: the client is gone, which the handler
\* learns when a send fails, of a heartbeat or of a message it took
\* from the queue; the finally clause pops the job's queue.
WsDisconnect(s) ==
    /\ api_subs[s] = "listening"
    /\ api_subs' = [api_subs EXCEPT ![s] = "disconnected"]
    /\ api_listed' = FALSE
    /\ \/ UNCHANGED api_queue
       \/ /\ api_queue # <<>>
          /\ api_queue' = Tail(api_queue)
    /\ UNCHANGED <<api_job, api_initial, api_state, api_pc, api_plan, api_step,
                   api_got, api_polled>>
    /\ UNCHANGED <<pipelineVars, riskVars, scoreVars, parseVars, splitVars,
                   chunkVars, groupVars, indexVars>>

ApiInit ==
    /\ ApiIdle /\ IndexIdle
    /\ evaluation_mode = "rag"
    /\ checklist = <<>>
    /\ PipelineInit
    /\ RiskIdle /\ ScoreIdle /\ ParseIdle /\ SplitIdle /\ ChunkIdle /\ GroupIdle

\* The steps of the background task.
RunStep == RunPipeline \/ RunEmit \/ WrapperSuccess \/ WrapperExcept

ApiNext ==
    \/ StartAnalysis
    \/ RunPipeline
    \/ RunEmit
    \/ RunRaise
    \/ WrapperSuccess
    \/ WrapperExcept
    \/ PollStatus
    \/ \E s \in Subscribers : WsAttach(s)
    \/ \E s \in Subscribers : WsReceive(s)
    \/ \E s \in Subscribers : WsDisconnect(s)

SpecApi == ApiInit /\ [][ApiNext]_vars

\* The thread pool runs the background task to its end, and the event
\* loop wakes every handler whose queue.get can return, at the latest
\* when its 30 s wait times out.
SpecApiLive ==
    /\ ApiInit /\ [][ApiNext]_vars
    /\ WF_vars(RunStep)
    /\ \A s \in Subscribers : WF_vars(WsReceive(s))

\* The messages put on a queue earlier, oldest first.
Earlier(n) == [i \in 1 .. n |-> Update("earlier", i)]

\* on_progress alone: a run under way, the job's queue listed or
\* popped, and holding any number of messages it has room for.
PublishInit ==
    /\ api_job = "initial"
    /\ api_initial = NoState /\ api_state = NoState
    /\ api_pc = "running"
    /\ api_plan \in {RagUpdates, LongContextUpdates}
    /\ api_step = 0
    /\ api_queue \in {Earlier(n) : n \in 0 .. QUEUE_MAXSIZE}
    /\ api_listed \in BOOLEAN
    /\ api_subs = [s \in Subscribers |-> "unattached"]
    /\ api_got = [s \in Subscribers |-> "none"]
    /\ api_polled = <<>>
    /\ IndexIdle
    /\ evaluation_mode = "rag"
    /\ checklist = <<>>
    /\ PipelineInit
    /\ RiskIdle /\ ScoreIdle /\ ParseIdle /\ SplitIdle /\ ChunkIdle /\ GroupIdle

SpecPublish == PublishInit /\ [][RunEmit \/ RunRaise]_vars

\* ------------------------------------------------------------------ claims
HasReport == report.report_id # None
FindingIds(fs) == {fs[i].dqc_item_id : i \in DOMAIN fs}
ItemIdsOf(items) == {items[i].item_id : i \in DOMAIN items}

\* C1: every report of either strategy holds exactly one finding per
\* checklist item: as many findings as items, and the same set of ids.
C1_OneFindingPerItem ==
    HasReport =>
        /\ Len(report.findings) = Len(checklist)
        /\ FindingIds(report.findings) = ItemIdsOf(checklist)

\* C2: the findings of a report are in checklist order: when a report
\* holds as many findings as the checklist has items, the finding at each
\* position carries the id of the item at that position.
C2_FindingsInChecklistOrder ==
    (HasReport /\ Len(report.findings) = Len(checklist)) =>
        \A i \in DOMAIN report.findings :
            report.findings[i].dqc_item_id = checklist[i].item_id

\* C3: the risk level of every finding of every report is the risk matrix
\* applied to the finding's own status and confidence, fallbacks included.
C3_RiskAlwaysFromMatrix ==
    HasReport =>
        \A i \in DOMAIN report.findings :
            report.findings[i].risk_level =
                _risk_level(report.findings[i].status,
                            report.findings[i].confidence_score)

\* The table of the specification, band by band.
RiskTable(status, confidence) ==
    LET band == IF confidence >= 80 THEN 1 ELSE IF confidence >= 50 THEN 2 ELSE 3
    IN  CASE status = "Fail" -> <<"Critical", "High", "Medium">>[band]
          [] status = "Partial" -> <<"High", "Medium", "Low">>[band]
          [] status = "Pass" -> <<"Low", "Low", "Low">>[band]

\* C4: for every status and every confidence in [0,1], _risk_level returns
\* the entry of the table: Fail -> Critical / High / Medium, Partial ->
\* High / Medium / Low, Pass -> Low, for confidence >= 0.8, in [0.5, 0.8)
\* and below 0.5; 0.8 and 0.5 belong to the higher band.
C4_RiskMatrix ==
    rl_result # None => rl_result = RiskTable(rl_status, rl_confidence)
C4_Witness ==
    /\ rl_status = "Partial" /\ rl_confidence = 50 /\ rl_result = "Medium"

StageOrder ==
    <<"pending", "ingestion", "preprocessing", "embedding", "evaluation",
      "reporting", "completed">>
Rank(s) == CHOOSE i \in DOMAIN StageOrder : StageOrder[i] = s
InOrder(s) == \E i \in DOMAIN StageOrder : StageOrder[i] = s

\* C5: within a run the stage only moves forward along pending ->
\* ingestion -> preprocessing -> embedding -> evaluation -> reporting ->
\* completed (skipping allowed), or to failed from a stage that is not
\* terminal; completed and failed are never left.
C5_StageMovesForward ==
    [][stage' # stage =>
         /\ stage \notin {"completed", "failed"}
         /\ \/ stage' = "failed"
            \/ /\ InOrder(stage) /\ InOrder(stage')
               /\ Rank(stage) < Rank(stage')]_vars
C5_Witness ==
    /\ stage = "completed" /\ use_long_context
    /\ \A i \in DOMAIN emitted :
         emitted[i].stage \notin {"preprocessing", "embedding"}

RECURSIVE DistinctStages(_)
\* The stages of a list of updates, runs of one stage collapsed.
DistinctStages(updates) ==
    IF updates = <<>> THEN <<>>
    ELSE LET rest == DistinctStages(Tail(updates))
         IN  IF rest # <<>> /\ Head(rest) = Head(updates).stage
             THEN rest
             ELSE <<Head(updates).stage>> \o rest

\* C6: a successful run on the retrieval-augmented branch shows its
\* callback exactly the stages ingestion, preprocessing, embedding,
\* evaluation, reporting, completed, in that order.
C6_RagStageSequence ==
    (pc = "returned" /\ ~use_long_context) =>
        DistinctStages(emitted) =
            <<"ingestion", "preprocessing", "embedding", "evaluation",
              "reporting", "completed">>
C6_Witness ==
    pc = "returned" /\ ~use_long_context /\ Len(checklist) = MaxItems

\* C7: the progress values given to the callback never decrease and stay
\* within [0,100] on both branches; 100 comes only with completed; the
\* update to failed repeats the progress of the update before it.
C7_ProgressMonotone ==
    /\ \A i, j \in DOMAIN emitted :
         i < j => emitted[i].progress <= emitted[j].progress
    /\ \A i \in DOMAIN emitted :
         /\ emitted[i].progress \in 0..100
         /\ emitted[i].progress = 100 => emitted[i].stage = "completed"
         /\ emitted[i].stage = "failed" =>
              emitted[i].progress = (IF i = 1 THEN 0 ELSE emitted[i - 1].progress)
    /\ emitted # <<>> =>
         /\ stage = emitted[Len(emitted)].stage
         /\ progress = emitted[Len(emitted)].progress
C7_Witness ==
    /\ stage = "failed" /\ use_long_context /\ progress = 20
    /\ Len(emitted) = 4

\* The fatal conditions: extraction raises, extraction returns no text,
\* chunking returns no chunk, the batch evaluator call raises.
FatalMessages ==
    {"FileNotFoundError: File not found", "Extraction failed: no text extracted",
     "Chunking produced no chunks", "Batch evaluator call failed"}

\* C8: when a fatal condition occurs, run() ends with stage failed, the
\* message appended to state.errors, report_id unset, no JSON report, no
\* PDF report, no audit record, and the exception raised to the caller.
C8_FatalStopsRun ==
    \A m \in FatalMessages :
        (exc = m \/ \E i \in DOMAIN errors : errors[i] = m) =>
            /\ pc = "raised" /\ exc = m
            /\ stage = "failed"
            /\ errors = <<m>>
            /\ report_id = None
            /\ json_reports = 0 /\ pdf_reports = 0 /\ audit_log = 0
C8_Witness ==
    exc = "Chunking produced no chunks" /\ stage = "failed"

\* C9: whatever text the batch call returns, the strategy returns a
\* report and raises nothing; when no parse layer succeeds every item gets
\* the same Partial fallback with confidence 0, in checklist order, and the
\* summary is the generic fallback text.
C9_BatchResponseAbsorbed ==
    /\ batch_outcome \in {"parsed", "unparsed"} => HasReport
    /\ batch_outcome = "unparsed" =>
         /\ Len(report.findings) = Len(checklist)
         /\ \A i \in DOMAIN report.findings :
              /\ report.findings[i].dqc_item_id = checklist[i].item_id
              /\ report.findings[i].status = "Partial"
              /\ report.findings[i].confidence_score = 0
              /\ report.findings[i].justification =
                   Text("Evaluation response could not be parsed.", "")
         /\ report.executive_summary = PARSE_FALLBACK_SUMMARY

\* C10: evaluate_item invokes the evaluator at most twice for an item; a
\* second invocation follows a first that raised and gets the context cut
\* to 5000 characters; when the second raises too the item's finding is
\* Partial with confidence 0, a justification naming that failure and the
\* recommendation "Manual review required ...", and the exception does not
\* leave evaluate_item.
C10_RetryOnce ==
    LET calls == last_eval.calls
    IN  /\ Len(calls) <= 2
        /\ Len(calls) >= 1 => calls[1].context_len = last_eval.context_len
        /\ Len(calls) = 2 =>
             /\ calls[1].raised
             /\ last_eval.context_len <= 5000 =>
                  calls[2].context_len = last_eval.context_len
             /\ last_eval.context_len > 5000 => calls[2].context_len = 5000
        /\ (Len(calls) = 2 /\ calls[2].raised) =>
             /\ exc \notin ChainMessages
             /\ findings # <<>>
             /\ LET f == findings[Len(findings)]
                IN  /\ f.dqc_item_id = last_eval.item_id
                    /\ f.status = "Partial"
                    /\ f.confidence_score = 0
                    /\ f.justification = Text("Evaluation failed", calls[2].message)
                    /\ f.recommendation =
                         Text("Manual review required for this item.", "")
C10_Witness ==
    /\ Len(last_eval.calls) = 2
    /\ last_eval.calls[2].raised
    /\ last_eval.calls[1].message # last_eval.calls[2].message
    /\ last_eval.context_len > 5000

\* C11: when retrieval returns no chunks for an item, evaluate_item
\* returns a finding for that item with status Fail and confidence 0.3
\* whose recommendation restates the item's requirement, and the evaluator
\* is not invoked for the item.
C11_NoContextFallback ==
    (last_eval.item_id # UNKNOWN_ID /\ last_eval.chunks = 0) =>
        /\ last_eval.calls = <<>>
        /\ findings # <<>>
        /\ LET f == findings[Len(findings)]
               item == checklist[Len(findings)]
           IN  /\ item.item_id = last_eval.item_id
               /\ f.dqc_item_id = item.item_id
               /\ f.status = "Fail"
               /\ f.confidence_score = 30
               /\ f.recommendation =
                    Text("Ensure the document addresses", item.requirement)
C11_Witness ==
    /\ last_eval.item_id = 2 /\ last_eval.chunks = 0
    /\ Len(findings) = 2 /\ findings[2].status = "Fail"
    /\ findings[1].status = "Pass"

\* What may still fail a run once the findings are aggregated: the report
\* sinks of run().
SinkMessages ==
    {"OSError: JSON report", "OSError: PDF report",
     "sqlite3.OperationalError: audit log"}

\* C12: when the executive-summary call raises during evaluate_checklist
\* the report is returned all the same, with the findings of the items
\* unchanged and a summary made of the score and of the passed, failed and
\* partial counts; the failure of the summary does not fail the run.
C12_SummaryFailureAbsorbed ==
    summary_outcome = "raised" =>
        /\ HasReport
        /\ report.findings = findings
        /\ Len(findings) = Len(checklist)
        /\ report.executive_summary =
             Text("Compliance score: {score}%. {passed} passed, {failed} failed, {partial} partial.",
                  ToString(<<report.overall_compliance.score,
                             Count(findings, "Pass"), Count(findings, "Fail"),
                             Count(findings, "Partial")>>))
        /\ exc \in {None} \cup SinkMessages
        /\ pc = "raised" <=> exc # None
C12_Witness ==
    /\ summary_outcome = "raised" /\ pc = "returned"
    /\ Count(findings, "Pass") = 1 /\ Count(findings, "Fail") = 1

\* The branch a run has entered, read off the updates given to the
\* callback: _run_long_context opens with (evaluation, 20), _run_rag with
\* (preprocessing, 18).
EnteredLongContext ==
    \E i \in DOMAIN emitted :
        emitted[i] = [stage |-> "evaluation", progress |-> 20]
EnteredRag ==
    \E i \in DOMAIN emitted : emitted[i].stage = "preprocessing"

\* C13: the mode is selected exactly once per run, after extraction has
\* succeeded, and never when it has not; policy "rag" selects the
\* retrieval-augmented branch, "long_context" the batch branch, and "auto"
\* the batch branch exactly when len(raw_text) / 4 is strictly below the
\* configured ceiling; the run enters the branch selected and no other.
C13_ModeSelection ==
    /\ mode_selections \in {0, 1}
    /\ mode_selections = 1 <=>
           (pc \notin {"idle", "ingestion"} /\ is_valid(content))
    /\ mode_selections = 0 => ~EnteredLongContext /\ ~EnteredRag
    /\ mode_selections = 1 =>
         /\ evaluation_mode = "rag" => ~use_long_context
         /\ evaluation_mode = "long_context" => use_long_context
         /\ evaluation_mode = "auto" =>
              (use_long_context <=> content.raw_len < 4 * long_context_max_tokens)
         /\ EnteredLongContext => use_long_context
         /\ EnteredRag => ~use_long_context
         /\ pc \notin {"branch", "raised"} => (EnteredLongContext \/ EnteredRag)
C13_Witness ==
    /\ evaluation_mode = "auto"
    /\ content.raw_len = 4 * long_context_max_tokens
    /\ mode_selections = 1 /\ EnteredRag /\ pc = "returned"

Severity(r) ==
    CASE r = "Critical" -> 0 [] r = "High" -> 1 [] r = "Medium" -> 2
      [] r = "Low" -> 3
\* Position of the item of an id in the checklist.
PositionOf(id) == CHOOSE i \in DOMAIN checklist : checklist[i].item_id = id
\* The findings that call for a recommendation entry.
Actionable(fs) ==
    {i \in DOMAIN fs : fs[i].status # "Pass" /\ fs[i].recommendation # NoText}

\* C15: in every report of either strategy the recommendations hold one
\* entry for each finding that is not Pass and carries a recommendation,
\* and none for the others; they are ordered by risk severity (Critical,
\* High, Medium, Low) and, within one severity, by the position of the
\* item in the checklist; the priorities are 1..N.
C15_Recommendations ==
    HasReport =>
        LET fs == report.findings
            recs == report.recommendations
        IN  /\ Len(recs) = Cardinality(Actionable(fs))
            /\ \A i \in Actionable(fs) : \E k \in DOMAIN recs :
                 /\ recs[k].dqc_item_id = fs[i].dqc_item_id
                 /\ recs[k].action = fs[i].recommendation
                 /\ recs[k].risk_impact = fs[i].risk_level
            /\ \A k \in DOMAIN recs : \E i \in Actionable(fs) :
                 recs[k].dqc_item_id = fs[i].dqc_item_id
            /\ \A k \in DOMAIN recs : recs[k].priority = k
            /\ \A k, l \in DOMAIN recs :
                 k < l =>
                   /\ Severity(recs[k].risk_impact) <= Severity(recs[l].risk_impact)
                   /\ ( /\ recs[k].risk_impact = recs[l].risk_impact
                        /\ recs[k].dqc_item_id \in ItemIdsOf(checklist)
                        /\ recs[l].dqc_item_id \in ItemIdsOf(checklist)
                        /\ recs[k].dqc_item_id # recs[l].dqc_item_id )
                      => PositionOf(recs[k].dqc_item_id) < PositionOf(recs[l].dqc_item_id)

\* C16: the score of a report is round(passed / total * 100, 1), where
\* passed counts the Pass findings and total all findings, and 0.0 when
\* there is no finding: the tenth nearest to the exact ratio (4 Pass and 1
\* Fail give 80.0); Fail and Partial findings add nothing to it, and the
\* summary's counts are those of the findings.
C16_Score ==
    sc_result # <<>> =>
        LET c == sc_result[1]
            total == Len(sc_statuses)
            CountOf(st) == Cardinality({i \in DOMAIN sc_statuses : sc_statuses[i] = st})
            passed == CountOf("Pass")
            error == c.score * total - 1000 * passed
        IN  /\ c.total_items = total /\ c.passed = passed
            /\ c.failed = CountOf("Fail") /\ c.partial = CountOf("Partial")
            /\ total = 0 => c.score = 0
            /\ total > 0 =>
                 /\ c.score \in 0..1000
                 /\ 2 * error <= total /\ -2 * error <= total
                 /\ (2 * error = total \/ -2 * error = total) => c.score % 2 = 0
            /\ (passed = 4 /\ total = 5) => c.score = 800
            /\ passed = total /\ total > 0 => c.score = 1000
C16_Witness ==
    /\ sc_statuses = <<"Pass", "Partial", "Pass">>
    /\ sc_result # <<>> /\ sc_result[1].score = 667

\* C17: for every JSON object J with an "evaluations" key, _try_parse_json
\* returns data equal to J when given J as serialized, J inside Markdown
\* fences (with or without a language tag), J with prose before or after
\* it, and J with one trailing comma before its closing brace; given a
\* text that holds no JSON object it returns None.
C17_ParseRoundTrip ==
    pj_result # <<>> =>
        /\ pj_form \in ResponseForms =>
             /\ pj_result[1].found
             /\ pj_result[1].data = pj_value[1]
        /\ pj_form = "no_object" => ~pj_result[1].found

\* The candidate chunks of a document: what _split_text returns for its
\* sections, in order.
RECURSIVE Candidates(_)
Candidates(section_groups) ==
    IF section_groups = <<>> THEN <<>>
    ELSE _split_text(Head(section_groups).sentences, chunk_size, chunk_overlap)
         \o Candidates(Tail(section_groups))

\* C18: the chunks chunk_document returns carry the chunk_index values
\* 0, 1, ..., n-1 in list order, across all sections and whatever number
\* of candidate chunks under 20 tokens was dropped; the chunks are the
\* candidates of 20 tokens or more.
C18_ChunkIndexSequential ==
    cd_result # <<>> =>
        LET result == cd_result[1]
            kept == SelectSeq(Candidates(SectionGroups(cd_content[1])),
                              LAMBDA c : SumTokens(c) >= 20)
        IN  /\ \A i \in DOMAIN result : result[i].chunk_index = i - 1
            /\ Len(result) = Len(kept)
            /\ \A i \in DOMAIN result : result[i].elements = kept[i]
C18_Witness ==
    /\ cd_result # <<>>
    /\ Len(cd_content[1].sections) = 2
    /\ Len(cd_result[1]) = 3
    /\ Len(Candidates(SectionGroups(cd_content[1]))) = 4
    /\ cd_result[1][1].section_name # cd_result[1][3].section_name
    /\ SumTokens(Candidates(SectionGroups(cd_content[1]))[1]) < 20

\* The number of elements of chunk b that chunk a holds as well: the
\* sentences carried over from a to b.
CarriedCount(a, b) == Cardinality({j \in DOMAIN b : \E i \in DOMAIN a : a[i] = b[j]})

\* C19: for any two consecutive chunks _split_text produces from one text,
\* the sentences carried over from the end of chunk i to the start of chunk
\* i+1 sum to at most the configured overlap, and they are a suffix of chunk
\* i's sentences in their original order.
C19_OverlapWithinBudget ==
    st_result # <<>> =>
        \A i \in 1..(Len(st_result[1]) - 1) :
            LET a == st_result[1][i]
                b == st_result[1][i + 1]
                k == CarriedCount(a, b)
            IN  /\ k <= Len(a)
                /\ SubSeq(b, 1, k) = SubSeq(a, Len(a) - k + 1, Len(a))
                /\ SumTokens(SubSeq(b, 1, k)) <= chunk_overlap
C19_Witness ==
    /\ st_result # <<>>
    /\ \E i \in 1..(Len(st_result[1]) - 1) :
           LET a == st_result[1][i]
               b == st_result[1][i + 1]
               k == CarriedCount(a, b)
           IN  /\ k >= 1
               /\ k < Len(a)
               /\ SumTokens(SubSeq(b, 1, k)) = chunk_overlap
    /\ \E i \in 1..(Len(st_result[1]) - 1) :
           CarriedCount(st_result[1][i], st_result[1][i + 1]) = 0

\* The position of the first chunk of a section in a list.
FirstOf(docs, section) ==
    CHOOSE i \in DOMAIN docs :
        /\ docs[i].section_name = section
        /\ \A j \in 1..(i - 1) : docs[j].section_name # section

\* C20: _group_by_section returns a permutation of the list it is given in
\* which the chunks of one section are contiguous, the sections appear in
\* the order of their first occurrence in the input, and the chunks of a
\* section are in non-decreasing (page_number, chunk_index) order.
C20_GroupBySection ==
    gs_result # <<>> =>
        LET ordered == gs_result[1]
            sections == {gs_chunks[i].section_name : i \in DOMAIN gs_chunks}
        IN  /\ Len(ordered) = Len(gs_chunks)
            /\ \A i \in DOMAIN gs_chunks :
                   Cardinality({j \in DOMAIN ordered : ordered[j] = gs_chunks[i]}) = 1
            /\ \A i, j, k \in DOMAIN ordered :
                   i < j /\ j < k /\ ordered[i].section_name = ordered[k].section_name
                   => ordered[j].section_name = ordered[i].section_name
            /\ \A s, t \in sections :
                   FirstOf(gs_chunks, s) < FirstOf(gs_chunks, t)
                   => FirstOf(ordered, s) < FirstOf(ordered, t)
            /\ \A i, j \in DOMAIN ordered :
                   i < j /\ ordered[i].section_name = ordered[j].section_name
                   => \/ ordered[i].page_number < ordered[j].page_number
                      \/ /\ ordered[i].page_number = ordered[j].page_number
                         /\ ordered[i].chunk_index <= ordered[j].chunk_index
C20_Witness ==
    /\ gs_result # <<>>
    /\ Len(gs_chunks) = 3
    /\ gs_chunks[1].section_name = "B"
    /\ gs_chunks[2].section_name = "A"
    /\ gs_chunks[3].section_name = "B"
    /\ gs_chunks[1].page_number = gs_chunks[3].page_number
    /\ gs_chunks[1].chunk_index > gs_chunks[3].chunk_index
    /\ gs_result[1] = <<gs_chunks[3], gs_chunks[1], gs_chunks[2]>>

\* C26: every chunk _split_text emits that is built from whole sentences
\* (each of at most T tokens) has a summed sentence-token count of at most
\* T, the buffer being flushed before a sentence that would take it over T
\* even when it holds only the overlap carry; and the words of a
\* force-split sentence that share a chunk sum to at most T.
C26_ChunkWithinBudget ==
    st_result # <<>> =>
        \A i \in DOMAIN st_result[1] :
            LET c == st_result[1][i]
            IN  /\ (\A j \in DOMAIN c : c[j].word = 0) => SumTokens(c) <= chunk_size
                /\ SumTokens(SelectSeq(c, LAMBDA e : e.word # 0)) <= chunk_size

\* C30: in the RetrievalResult of retrieve, chunks and scores have the same
\* length and scores[i] is the score the index returned for chunks[i], for
\* every i.
C30_ScoresAligned ==
    rt_result # <<>> =>
        LET r == rt_result[1]
            results == SearchResults(gs_chunks)
        IN  /\ Len(r.chunks) = Len(r.scores)
            /\ \A i \in DOMAIN r.chunks :
                   \E k \in DOMAIN results : results[k] = <<r.chunks[i], r.scores[i]>>

\* Whether chunk_document has returned in this run.
Chunked == \E i \in DOMAIN emitted : emitted[i] = [stage |-> "preprocessing", progress |-> 25]

\* C25: chunk_document returns an empty list for a document with no text
\* and no sections; and once chunking has returned an empty list the RAG
\* branch fails the run, with stage failed and 'Chunking produced no chunks'
\* in errors, having issued neither delete_by_doc_id nor add_chunks.
C25_NoChunksFatal ==
    /\ chunk_document([sections |-> <<>>, raw_text |-> <<>>]) = <<>>
    /\ (Chunked /\ chunks = 0 /\ pc # "chunked") =>
           /\ pc = "raised"
           /\ stage = "failed"
           /\ \E i \in DOMAIN errors : errors[i] = "Chunking produced no chunks"
           /\ vs_ops = <<>>
C25_Witness ==
    /\ Chunked /\ chunks = 0 /\ pc = "raised" /\ stage = "failed"
    /\ ~use_long_context /\ vs_ops = <<>>

\* The fields of PipelineState.
StateFields == <<stage, progress, filename, doc_id, stage_times, errors, report_id>>
\* run() has returned or raised.
RunOver == pc \in {"returned", "raised"}

\* C22: every mutation of PipelineState made by run() reaches the progress
\* callback, which is handed the state object itself: stage and progress
\* change only in an _emit, which calls the callback with them; a step that
\* changes another field without an _emit does not end the run; and the
\* step that ends the run, returning or raising, ends with an _emit, so
\* the callback sees every earlier change before run() is over.
C22_MutationsDelivered ==
    [][/\ (stage' # stage \/ progress' # progress) =>
            emitted' = Append(emitted, [stage |-> stage', progress |-> progress'])
       /\ (StateFields' # StateFields /\ emitted' = emitted) => ~RunOver'
       /\ (RunOver' /\ ~RunOver) =>
            emitted' = Append(emitted, [stage |-> stage', progress |-> progress'])]_vars
C22_Witness ==
    /\ pc = "raised" /\ errors # <<>> /\ doc_id # ""
    /\ stage_times = {"ingestion", "preprocessing", "embedding", "evaluation", "reporting"}
    /\ report_id # None
    /\ emitted[Len(emitted)] = [stage |-> "failed", progress |-> 90]

\* Some emitted update announced the given stage.
Announced(s) == \E i \in DOMAIN emitted : emitted[i].stage = s

\* C24: the sinks are written in the order JSON report, PDF report,
\* state.report_id, audit record, and completed is announced only after
\* all of them: a run that announced completed saved one JSON report,
\* rendered one PDF, set report_id to the report's id and appended
\* exactly one audit record; a run that raised appended none.
C24_CompletedAfterSinks ==
    /\ pdf_reports <= json_reports /\ json_reports <= 1
    /\ audit_log <= pdf_reports
    /\ (pdf_reports = 1 /\ pc # "raised") => report_id = report.report_id
    /\ audit_log = 1 => (report_id = report.report_id /\ "reporting" \in stage_times)
    /\ Announced("completed") <=> audit_log = 1
    /\ Announced("completed") =>
          /\ emitted[Len(emitted)] = [stage |-> "completed", progress |-> 100]
          /\ pc = "returned"
    /\ pc = "raised" => audit_log = 0
C24_Witness ==
    /\ pc = "returned" /\ Announced("completed")
    /\ json_reports = 1 /\ pdf_reports = 1 /\ audit_log = 1
    /\ report_id = report.report_id

\* C23: after the same file went through the RAG branch a second time,
\* the index holds no entry inserted by the earlier run.
C23_OnlyLatestRun ==
    (Len(ix_runs) >= 2 /\ ix_pc = "done") =>
        \A r \in 1 .. Len(ix_runs) - 1 : ix_collection[ix_runs[r].doc_id] = 0

\* C27: re-indexing is not atomic and never waits for a reader. Between
\* delete_by_doc_id and the last batch the collection holds, for the
\* run's document, the whole batches stored so far and never all the
\* chunks, so a search made then sees none or a part of them; the
\* writer's next step is enabled whatever the reader has done; once the
\* run is through, all its chunks are there.
C27_ReindexNotAtomic ==
    /\ ix_pc = "delete" => ENABLED IndexDelete
    /\ ix_pc = "add" =>
          /\ ENABLED IndexAddBatch("stored")
          /\ ix_collection[LatestRun.doc_id] = ix_i
          /\ ix_i < LatestRun.chunks
    /\ ix_pc = "done" => ix_collection[LatestRun.doc_id] = LatestRun.chunks
    /\ \A k \in DOMAIN ix_reads :
          ix_reads[k].during = "add" =>
              /\ ix_reads[k].visible < ix_runs[ix_reads[k].run].chunks
              /\ ix_reads[k].visible % batch_size = 0
C27_Witness ==
    /\ ix_pc = "done" /\ Len(ix_reads) = 2
    /\ ix_reads[1].run = Len(ix_runs) /\ ix_reads[2].run = Len(ix_runs)
    /\ ix_reads[1].during = "add" /\ ix_reads[1].visible = 0
    /\ ix_reads[2].during = "add" /\ ix_reads[2].visible > 0
    /\ ix_reads[2].visible < LatestRun.chunks

\* C29: when a run started through the API fails, status polling
\* returns an error list holding the failure message exactly once.
C29_FailureListedOnce ==
    (api_pc = "done" /\ api_polled # <<>> /\ api_polled[1].stage = "failed") =>
        Len(api_polled[1].errors) = 1

\* A connection made to the job while the job existed.
Attached(s) == api_subs[s] \in {"listening", "not_found", "closed", "disconnected"}
\* The connection got completed or failed and was then closed.
SawTheEnd(s) == api_subs[s] = "closed" /\ api_got[s] \in {"completed", "failed"}

\* C28: every connection made to an existing job whose run ends is
\* eventually sent completed or failed and then closed by the server,
\* unless the client went away first.
C28_SubscribersSeeTheEnd ==
    \A s \in Subscribers :
        [](Attached(s) => <>(SawTheEnd(s) \/ api_subs[s] = "disconnected"))

\* The step is an _emit of the run, which calls on_progress.
Publishes == api_step' # api_step \/ (api_pc = "running" /\ api_pc' = "raised")

====
